---------------------------- MODULE Spec2Model ----------------------------
(***************************************************************************)
(* A model of the tenant-master operator: the admission webhooks that      *)
(* default and validate a Tenant declaration, and the reconciler that      *)
(* provisions a tenant's namespace, quota, RBAC, network policy and, for   *)
(* the Gold tier, the vCluster configuration and kubeconfig secret.        *)
(*                                                                         *)
(* Strings the code inspects character by character (owner, cpu, memory)   *)
(* are sequences of one-character strings; every other string is a TLA+    *)
(* string.  Times are abstracted to "set" / "not set", except the deletion *)
(* timestamp, which is a number with 0 for nil.                            *)
(*                                                                         *)
(* The specifications: Spec is the reconciler in its cluster (FairSpec     *)
(* the same scheduled fairly, without the webhooks, SpecDeletion the fair  *)
(* reconciler with the garbage collector and users only), SpecAdmission    *)
(* the webhooks on one request, SpecPolicy the default-deny policy under   *)
(* ensureNetworkPolicy, the drift detector and manual edits,               *)
(* SpecProvision one managed object under repeated calls of its            *)
(* provisioner, SpecFilter the update filter of the controller on the      *)
(* update events of one declaration and of the objects it owns, SpecWait   *)
(* the readiness wait of ensureVCluster, SpecPool the workers of the       *)
(* controller serving several tenants.                                     *)
(*                                                                         *)
(* In the specifications of the reconciler the operator process is taken   *)
(* to keep running; the panic of the update filter on an event of an owned *)
(* Namespace or Secret is part of SpecFilter only.                         *)
(***************************************************************************)
EXTENDS Integers, Sequences, FiniteSets, TLC

(***************************************************************************)
(* api/v1alpha1: tiers and states                                          *)
(***************************************************************************)
BronzeTier == "Bronze"
SilverTier == "Silver"
GoldTier == "Gold"

Tiers == {BronzeTier, SilverTier, GoldTier}

\* A tier value outside the enumeration, as an unvalidated declaration may carry.
UnknownTier == "Platinum"

StateProvisioning == "Provisioning"
StateReady == "Ready"
StateFailed == "Failed"
StateSuspended == "Suspended"
StateTerminating == "Terminating"

\* The empty string is the unset state of a declaration never reconciled.
TenantStates ==
  {"", StateProvisioning, StateReady, StateFailed, StateSuspended, StateTerminating}

(***************************************************************************)
(* Text helpers                                                            *)
(***************************************************************************)
Digits == {"0", "1", "5"}

AtomChars == {"a", "b", "A", "B", "0", "1", "5", "m", "M", "G", "i", "x"}

\* strings.ToLower on one character of the alphabet used here.
LowerChar(c) ==
  CASE c = "A" -> "a"
    [] c = "B" -> "b"
    [] c = "M" -> "m"
    [] c = "G" -> "g"
    [] OTHER -> c

ToLower(s) == [i \in 1..Len(s) |-> LowerChar(s[i])]

\* RFC 5322 dot-atom: atoms separated by single dots.
IsDotAtom(s) ==
  /\ Len(s) > 0
  /\ \A i \in 1..Len(s) : s[i] \in AtomChars \cup {"."}
  /\ s[1] # "."
  /\ s[Len(s)] # "."
  /\ \A i \in 1..(Len(s) - 1) : ~(s[i] = "." /\ s[i + 1] = ".")

\* net/mail.ParseAddress succeeds: an addr-spec local@domain.
ParseAddressOk(s) ==
  \E i \in 1..Len(s) :
    /\ s[i] = "@"
    /\ IsDotAtom(SubSeq(s, 1, i - 1))
    /\ IsDotAtom(SubSeq(s, i + 1, Len(s)))

\* The suffixes resource.ParseQuantity knows (binary SI, decimal SI).
QuantitySuffixes ==
  { <<>>, <<"K", "i">>, <<"M", "i">>, <<"G", "i">>, <<"T", "i">>, <<"P", "i">>,
    <<"E", "i">>, <<"n">>, <<"u">>, <<"m">>, <<"k">>, <<"M">>, <<"G">>, <<"T">>,
    <<"P">>, <<"E">> }

\* Length of the leading run of digits and dots of s, from position i on.
RECURSIVE NumberRun(_, _)
NumberRun(s, i) ==
  IF i <= Len(s) /\ s[i] \in Digits \cup {"."} THEN 1 + NumberRun(s, i + 1) ELSE 0

\* A decimal number: digits with at most one dot and at least one digit.
IsNumber(s) ==
  /\ \E i \in 1..Len(s) : s[i] \in Digits
  /\ Cardinality({i \in 1..Len(s) : s[i] = "."}) <= 1
  /\ \A i \in 1..Len(s) : s[i] \in Digits \cup {"."}

\* resource.ParseQuantity succeeds: [sign] number suffix.
ParseQuantityOk(s) ==
  LET body == IF Len(s) > 0 /\ s[1] \in {"+", "-"} THEN Tail(s) ELSE s
      n == NumberRun(body, 1)
  IN /\ IsNumber(SubSeq(body, 1, n))
     /\ SubSeq(body, n + 1, Len(body)) \in QuantitySuffixes

(***************************************************************************)
(* Declarations (TenantSpec)                                               *)
(***************************************************************************)
\* A slice: nil, or a (possibly empty) list of items.
NilList == [nil |-> TRUE, items |-> <<>>]

List(items) == [nil |-> FALSE, items |-> items]

DefaultCPU == <<"1", "0", "0", "0", "m">>
DefaultMemory == <<"1", "G", "i">>

MkSpec(tier, owner, cpu, memory, allow) ==
  [ tier |-> tier, owner |-> owner, cpu |-> cpu, memory |-> memory,
    allowInternetAccess |-> FALSE, whitelistedServices |-> NilList,
    allowTierMigration |-> allow, suspend |-> FALSE ]

(***************************************************************************)
(* Mutating webhook                                                        *)
(***************************************************************************)
\* Defaulting that sets the tier whether or not one was given.
DefaultOverwriting(spec) ==
  [ spec EXCEPT
      !.tier = SilverTier,
      !.owner = IF spec.owner # <<>> THEN ToLower(spec.owner) ELSE spec.owner,
      !.cpu = IF spec.cpu = <<>> THEN DefaultCPU ELSE spec.cpu,
      !.memory = IF spec.memory = <<>> THEN DefaultMemory ELSE spec.memory,
      !.whitelistedServices =
        IF Len(spec.whitelistedServices.items) = 0
        THEN List(<<>>) ELSE spec.whitelistedServices ]

Default(spec) ==
  [ spec EXCEPT
      !.tier = IF spec.tier = "" THEN SilverTier ELSE spec.tier,
      !.owner = IF spec.owner # <<>> THEN ToLower(spec.owner) ELSE spec.owner,
      !.cpu = IF spec.cpu = <<>> THEN DefaultCPU ELSE spec.cpu,
      !.memory = IF spec.memory = <<>> THEN DefaultMemory ELSE spec.memory,
      !.whitelistedServices =
        IF Len(spec.whitelistedServices.items) = 0
        THEN List(<<>>) ELSE spec.whitelistedServices ]

(***************************************************************************)
(* Validating webhook                                                      *)
(***************************************************************************)
Allowed == [kind |-> "allowed", fields |-> <<>>]

Forbidden(old, new) == [kind |-> "forbidden", fields |-> <<old, new>>]

Invalid(fields) == [kind |-> "invalid", fields |-> fields]

\* validation.parseQuantity: the empty string is an error of its own.
parseQuantity(s) == s # <<>> /\ ParseQuantityOk(s)

\* The field errors validateTenant collects, in the order it appends them.
FieldErrors(spec) ==
  (IF spec.tier \notin Tiers THEN <<"spec.tier">> ELSE <<>>)
  \o (IF spec.owner = <<>> \/ ~ParseAddressOk(spec.owner)
      THEN <<"spec.owner">> ELSE <<>>)
  \o (IF spec.cpu # <<>> /\ ~parseQuantity(spec.cpu)
      THEN <<"spec.resources.cpu">> ELSE <<>>)
  \o (IF spec.memory # <<>> /\ ~parseQuantity(spec.memory)
      THEN <<"spec.resources.memory">> ELSE <<>>)

\* Validation that returns at the first field error.
validateTenantFirstError(spec) ==
  IF FieldErrors(spec) = <<>> THEN Allowed ELSE Invalid(<<FieldErrors(spec)[1]>>)

validateTenant(spec) ==
  IF FieldErrors(spec) = <<>> THEN Allowed ELSE Invalid(FieldErrors(spec))

\* The tierOrder map; a missing key reads as the zero value.
tierOrder(tier) ==
  CASE tier = BronzeTier -> 0
    [] tier = SilverTier -> 1
    [] tier = GoldTier -> 2
    [] OTHER -> 0

\* The guard with its comparison turned round: upgrades are held back instead.
validateTierMigrationReversed(old, new) ==
  IF tierOrder(new.tier) > tierOrder(old.tier) /\ ~new.allowTierMigration
  THEN Forbidden(old.tier, new.tier)
  ELSE Allowed

validateTierMigration(old, new) ==
  IF tierOrder(new.tier) < tierOrder(old.tier) /\ ~new.allowTierMigration
  THEN Forbidden(old.tier, new.tier)
  ELSE Allowed

ValidateCreate(spec) == validateTenant(spec)

\* The update validation with its two checks in the other order.
ValidateUpdateFieldsFirst(old, new) ==
  IF validateTenant(new).kind # "allowed"
  THEN validateTenant(new)
  ELSE validateTierMigration(old, new)

ValidateUpdate(old, new) ==
  IF validateTierMigration(old, new).kind # "allowed"
  THEN validateTierMigration(old, new)
  ELSE validateTenant(new)

ValidateDelete(spec) == Allowed

(***************************************************************************)
(* The cluster: Tenant objects as the API server stores them, and the      *)
(* objects the provisioners manage.                                        *)
(***************************************************************************)
\* Tenant names; a Tenant is cluster-scoped and keyed by its name.
Names == {"acme"}

\* How many spec updates one Tenant object receives (metadata.generation).
MaxGen == 2

\* How many times a Tenant of one name is created (each with a fresh UID).
MaxIncarnations == 2

\* API calls that fail in a behaviour.
MaxFaults == 1

MaxConcurrentReconciles == 3

RequeueInterval == 30

NamespacePrefix == "tenant"
KubeconfigSecretSuffix == "kubeconfig"

Workers == 1..MaxConcurrentReconciles

EmptyStatus ==
  [ state |-> "", namespace |-> <<>>, apiEndpoint |-> <<>>,
    adminKubeconfigSecret |-> <<>>, provisioningStartTime |-> FALSE,
    lastUpdateTime |-> FALSE, lastError |-> <<>>, observedGeneration |-> 0 ]

ValidOwner == <<"a", "@", "b">>

\* uid 0 stands for "no such object".
NoTenant ==
  [ uid |-> 0, spec |-> MkSpec("", <<>>, <<>>, <<>>, FALSE), generation |-> 0,
    finalizer |-> FALSE, deletionTimestamp |-> 0, status |-> EmptyStatus ]

NewTenant(uid, spec) ==
  [ uid |-> uid, spec |-> spec, generation |-> 1, finalizer |-> FALSE,
    deletionTimestamp |-> 0, status |-> EmptyStatus ]

Kinds ==
  { "Namespace", "ResourceQuota", "ServiceAccount", "Role", "RoleBinding",
    "NetworkPolicy", "ConfigMap", "Secret" }

SilverKinds ==
  { "Namespace", "ResourceQuota", "ServiceAccount", "Role", "RoleBinding",
    "NetworkPolicy" }

\* owner 0 stands for "no such object"; owner is the UID of the controller
\* owner reference.
Absent == [owner |-> 0, data |-> <<>>]

NoObjects == [k \in Kinds |-> Absent]

\* A name that leaves the Tenant's own name out.
buildNamespaceNameShared(name) == <<NamespacePrefix>>

buildNamespaceName(name) == <<NamespacePrefix, name>>

\* The declarations users submit to the operator in this model.  With the
\* webhooks installed they set allowTierMigration, so that a downgrade is
\* admitted; without them nothing reads the flag.
UserSpecs(webhooks) ==
  { MkSpec(tier, ValidOwner, <<>>, <<>>, webhooks) :
      tier \in (IF webhooks THEN Tiers \cup {""} ELSE Tiers \cup {UnknownTier}) }

VARIABLES
  store,      \* store[n]: the Tenant named n as persisted (NoTenant if none)
  cluster,    \* cluster[n][k]: the object of kind k managed for tenant n
  uids,       \* how many Tenant objects have been created so far
  wq,         \* the controller's work queue
  wk,         \* wk[w]: worker w's reconcile invocation
  webhooks,   \* whether the admission webhooks are registered
  settled,    \* the API server no longer fails calls and users act no more
  faults,     \* how many API calls have failed so far
  adm,        \* an admission request and its outcome
  np          \* one managed object, its declaration and the last call on it

vars == <<store, cluster, uids, wq, wk, webhooks, settled, faults, adm, np>>

NoAdmission == [phase |-> "none"]

\* No object under study: the value of np in the engine's specifications.
NoPolicyCase ==
  [ kind |-> "NetworkPolicy", spec |-> MkSpec("", <<>>, <<>>, <<>>, FALSE),
    obj |-> Absent, edits |-> 0, now |-> 0, prev |-> "none", op |-> "none",
    before |-> Absent, writes |-> <<>>, err |-> FALSE,
    source |-> <<>>, status |-> <<>>, api |-> "ok" ]

(***************************************************************************)
(* The controller's work queue and the events that feed it.                *)
(***************************************************************************)
EmptyQueue ==
  [queue |-> <<>>, dirty |-> {}, processing |-> {}, delayed |-> {}]

\* Add with no regard for a key being processed: the key is handed out again.
QAddWhileProcessing(q, k) ==
  [q EXCEPT !.dirty = @ \cup {k}, !.queue = Append(@, k)]

\* queue.Add: a key already waiting is coalesced; a key being processed is
\* only marked dirty and is queued again when its processing is done.
QAdd(q, k) ==
  IF k \in q.dirty THEN q
  ELSE IF k \in q.processing THEN [q EXCEPT !.dirty = @ \cup {k}]
  ELSE [q EXCEPT !.dirty = @ \cup {k}, !.queue = Append(@, k)]

\* queue.Get: the head of the queue starts being processed.
QGet(q) ==
  [q EXCEPT !.queue = Tail(@), !.processing = @ \cup {Head(q.queue)},
            !.dirty = @ \ {Head(q.queue)}]

\* queue.Done: a key marked dirty meanwhile is queued again.
QDone(q, k) ==
  IF k \in q.dirty
  THEN [q EXCEPT !.processing = @ \ {k}, !.queue = Append(@, k)]
  ELSE [q EXCEPT !.processing = @ \ {k}]

\* queue.AddRateLimited / queue.AddAfter: the key is added after a delay.
QAddLater(q, k) == [q EXCEPT !.delayed = @ \cup {k}]

\* A filter that passes every update that changes the object at all.
UpdateFuncAnyChange(old, new) == old # new

\* The update filter of SetupWithManager on two versions of a Tenant.
UpdateFunc(old, new) ==
  LET specChanged == old.spec # new.spec
      deletionChanged ==
        IF old.deletionTimestamp = 0 /\ new.deletionTimestamp # 0 THEN TRUE
        ELSE IF old.deletionTimestamp # 0 /\ new.deletionTimestamp = 0 THEN TRUE
        ELSE IF old.deletionTimestamp # 0 /\ new.deletionTimestamp # 0
             THEN old.deletionTimestamp # new.deletionTimestamp
             ELSE FALSE
  IN specChanged \/ deletionChanged

\* The update filter on an update event of an object of the given kind:
\* the filter is installed for the Tenant watch and for the watches of the
\* owned Namespaces and Secrets alike, and asserts without a check that
\* both objects of the event are Tenants, so that an event of another kind
\* ends in a run-time panic instead of a decision.
UpdateFuncOn(kind, old, new) ==
  IF kind # "Tenant" THEN "panic"
  ELSE IF UpdateFunc(old, new) THEN "pass" ELSE "drop"

\* An update event of Tenant n, from old to new, reaches the queue or not.
OnUpdate(q, n, old, new) == IF UpdateFunc(old, new) THEN QAdd(q, n) ELSE q

(***************************************************************************)
(* A reconcile invocation.  pc names the API call the invocation makes     *)
(* next; a step is that call and the code that follows it up to the next   *)
(* call.                                                                   *)
(***************************************************************************)
NoResult == [requeue |-> FALSE, requeueAfter |-> 0, err |-> <<>>]

IdleWorker ==
  [ pc |-> "idle", key |-> "", obj |-> NoTenant, stale |-> FALSE, err |-> <<>>,
    calls |-> <<>>, writes |-> <<>>, errInc |-> 0, recorded |-> <<>>,
    result |-> NoResult ]

\* The outcomes a call to the API server may have: TRUE is success.
Outcomes == IF settled \/ faults >= MaxFaults THEN {TRUE} ELSE BOOLEAN

\* An object inside the tenant namespace cannot be written without it.
InnerOutcomes(n) ==
  IF cluster[n]["Namespace"].owner = 0 THEN {FALSE} ELSE Outcomes

APIError == "api error"

\* A failed call is counted, unless it failed for want of the namespace.
Charge(ok) == faults' = IF ok THEN faults ELSE faults + 1

ChargeInner(n, ok) ==
  faults' = IF ok \/ cluster[n]["Namespace"].owner = 0 THEN faults ELSE faults + 1

\* Every other holder of a copy of Tenant n now holds a stale copy.
Touch(f, n, w) ==
  [ v \in Workers |->
      IF v # w /\ f[v].key = n /\ f[v].pc \notin {"idle", "Get"}
      THEN [f[v] EXCEPT !.stale = TRUE] ELSE f[v] ]

\* The write accepted whatever the resourceVersion of the copy.
AcceptsStale(w, ok) ==
  /\ ok
  /\ wk[w].obj.uid # 0
  /\ store[wk[w].key].uid = wk[w].obj.uid

\* The API server accepts worker w's write of its Tenant: the call goes
\* through and the copy carries the stored resourceVersion.
Accepts(w, ok) ==
  /\ ok
  /\ ~wk[w].stale
  /\ wk[w].obj.uid # 0
  /\ store[wk[w].key].uid = wk[w].obj.uid

Return(r, res) == [r EXCEPT !.pc = "done", !.result = res]

\* The error dropped: an empty result, so that nothing is requeued.
ReturnErrorSwallowed(r, e) == Return(r, NoResult)

ReturnError(r, e) ==
  Return(r, [requeue |-> FALSE, requeueAfter |-> 0, err |-> e])

ReturnRequeue(r, e) ==
  Return(r, [requeue |-> TRUE, requeueAfter |-> 0, err |-> e])

\* Reconcile, lines 331-335: the failure path up to its status write,
\* with the lastError assignment left out.
FailWithoutLastError(r, e) ==
  [ r EXCEPT !.pc = "StatusFailed", !.err = e,
             !.obj.status.state = StateFailed,
             !.errInc = @ + 1 ]

\* The failure path writing the status with the state it finds in memory.
FailKeepingState(r, e) ==
  [ r EXCEPT !.pc = "StatusFailed", !.err = e,
             !.obj.status.lastError = e,
             !.errInc = @ + 1 ]

\* Reconcile, lines 331-335: the failure path up to its status write.
Fail(r, e) ==
  [ r EXCEPT !.pc = "StatusFailed", !.err = e,
             !.obj.status.state = StateFailed,
             !.obj.status.lastError = e,
             !.errInc = @ + 1 ]

\* The success path clearing the error text of an earlier failure.
SucceedClearingError(r) ==
  [ r EXCEPT !.pc = "StatusFinal",
             !.obj.status.lastUpdateTime = TRUE,
             !.obj.status.lastError = <<>>,
             !.obj.status.observedGeneration = r.obj.generation ]

\* The success path with observedGeneration left as it was read.
SucceedWithoutGeneration(r) ==
  [ r EXCEPT !.pc = "StatusFinal", !.obj.status.lastUpdateTime = TRUE ]

\* Reconcile, lines 342-344: the success path up to its status write.
Succeed(r) ==
  [ r EXCEPT !.pc = "StatusFinal",
             !.obj.status.lastUpdateTime = TRUE,
             !.obj.status.observedGeneration = r.obj.generation ]

\* The switch with Bronze sent down the Silver branch.
DispatchBronzeAsSilver(r) ==
  CASE r.obj.spec.tier \in Tiers -> [r EXCEPT !.pc = "ensureNamespace"]
    [] OTHER -> Fail(r, <<"unknown tier", r.obj.spec.tier>>)

\* Reconcile, lines 311-324: the switch on the tier.
Dispatch(r) ==
  CASE r.obj.spec.tier \in {SilverTier, GoldTier} ->
         [r EXCEPT !.pc = "ensureNamespace"]
    [] r.obj.spec.tier = BronzeTier ->
         Succeed([r EXCEPT !.obj.status.state = StateReady])
    [] OTHER -> Fail(r, <<"unknown tier", r.obj.spec.tier>>)

\* The first status written again whenever the declaration is not Ready.
AfterFinalizerResetting(r) ==
  IF r.obj.status.state # StateReady
  THEN [ r EXCEPT !.pc = "SetProvisioning",
                  !.obj.status.state = StateProvisioning,
                  !.obj.status.provisioningStartTime = TRUE ]
  ELSE Dispatch(r)

\* Reconcile, lines 300-309: the first status of a declaration.
AfterFinalizer(r) ==
  IF r.obj.status.state = ""
  THEN [ r EXCEPT !.pc = "SetProvisioning",
                  !.obj.status.state = StateProvisioning,
                  !.obj.status.provisioningStartTime = TRUE ]
  ELSE Dispatch(r)

\* The deletion check that provisions a declaration marked for deletion.
AfterGetIgnoringDeletion(r) ==
  IF ~r.obj.finalizer
  THEN [r EXCEPT !.pc = "AddFinalizer", !.obj.finalizer = TRUE]
  ELSE AfterFinalizer(r)

\* The deletion check skipped for a declaration already Terminating.
AfterGetProvisioningTerminating(r) ==
  IF r.obj.deletionTimestamp # 0 /\ r.obj.status.state # StateTerminating
  THEN IF r.obj.finalizer
       THEN [ r EXCEPT !.pc = "StatusTerminating",
                       !.obj.status.state = StateTerminating ]
       ELSE Return(r, NoResult)
  ELSE IF ~r.obj.finalizer
       THEN [r EXCEPT !.pc = "AddFinalizer", !.obj.finalizer = TRUE]
       ELSE AfterFinalizer(r)

\* An unknown tier replaced by Silver in the copy before the branches.
AfterGetDefaultingTier(r) ==
  LET q == [r EXCEPT !.obj.spec.tier = IF @ \in Tiers THEN @ ELSE SilverTier] IN
  IF q.obj.deletionTimestamp # 0
  THEN IF q.obj.finalizer
       THEN [ q EXCEPT !.pc = "StatusTerminating",
                       !.obj.status.state = StateTerminating ]
       ELSE Return(q, NoResult)
  ELSE IF ~q.obj.finalizer
       THEN [q EXCEPT !.pc = "AddFinalizer", !.obj.finalizer = TRUE]
       ELSE AfterFinalizer(q)

\* Reconcile, lines 285-298, and handleDeletion's test of the finalizer.
AfterGet(r) ==
  IF r.obj.deletionTimestamp # 0
  THEN IF r.obj.finalizer
       THEN [ r EXCEPT !.pc = "StatusTerminating",
                       !.obj.status.state = StateTerminating ]
       ELSE Return(r, NoResult)
  ELSE IF ~r.obj.finalizer
       THEN [r EXCEPT !.pc = "AddFinalizer", !.obj.finalizer = TRUE]
       ELSE AfterFinalizer(r)

\* fmt.Errorf("...: %w", err) of reconcileSilverTier, wrapped once more
\* by reconcileGoldTier.
SilverError(r, msg) ==
  IF r.obj.spec.tier = GoldTier
  THEN <<"failed to set up base Silver tier resources", msg, APIError>>
  ELSE <<msg, APIError>>

\* The label the API server keeps on every namespace it stores.
MetadataNameLabel == "kubernetes.io/metadata.name"

\* Data of an object of the given kind as the API server stores it.
Stored(kind, data) ==
  IF kind = "Namespace" THEN Append(data, MetadataNameLabel) ELSE data

\* CreateOrUpdate with the controller reference set by the mutate function:
\* a present object is handed over to the declaration being reconciled.
CreateOrUpdateAdopting(o, uid, data) == [owner |-> uid, data |-> data]

\* controllerutil.CreateOrUpdate with a mutate function setting data: an
\* absent object is created with the controller reference, a present one
\* is read back (reference and all) and has its data set.
CreateOrUpdate(o, uid, data) ==
  IF o.owner = 0 THEN [owner |-> uid, data |-> data] ELSE [o EXCEPT !.data = data]

\* controllerutil.CreateOrUpdate with a mutate function that changes nothing.
CreateOrKeep(o, uid, data) ==
  IF o.owner = 0 THEN [owner |-> uid, data |-> data] ELSE o

Called(r, name) == [r EXCEPT !.calls = Append(@, name)]

Wrote(r, op, ok) ==
  [r EXCEPT !.writes = Append(@, [op |-> op, state |-> r.obj.status.state, ok |-> ok])]

(***************************************************************************)
(* The default-deny network policy.  A rule is a record naming its one    *)
(* peer: kind is the selector used, name the namespace or the CIDR it     *)
(* selects (a sequence of characters), port the ports it is limited to.   *)
(***************************************************************************)
KubeSystem == <<"k", "u", "b", "e", "-", "s", "y", "s", "t", "e", "m">>
DefaultNamespace == <<"d", "e", "f", "a", "u", "l", "t">>
AnyAddress == <<"0", ".", "0", ".", "0", ".", "0", "/", "0">>

\* From: PodSelector {} -- every pod of the policy's own namespace.
SameNamespaceRule == [kind |-> "podSelector", name |-> <<>>, port |-> ""]

\* To: NamespaceSelector name=kube-system, Ports: UDP 53.
DNSRule == [kind |-> "namespaceSelector", name |-> KubeSystem, port |-> "UDP/53"]

\* To: NamespaceSelector name=<namespace> with PodSelector {}.
ServiceRule(namespace) ==
  [kind |-> "namespaceSelector+podSelector", name |-> namespace, port |-> ""]

\* To: IPBlock 0.0.0.0/0.
InternetRule == [kind |-> "ipBlock", name |-> AnyAddress, port |-> ""]

\* The position of the first "/" of s, or 0.
FirstSlash(s) ==
  IF \E i \in 1..Len(s) : s[i] = "/"
  THEN CHOOSE i \in 1..Len(s) : s[i] = "/" /\ \A j \in 1..(i - 1) : s[j] # "/"
  ELSE 0

\* The position of the last "/" of s, or 0.
LastSlash(s) ==
  IF \E i \in 1..Len(s) : s[i] = "/"
  THEN CHOOSE i \in 1..Len(s) : s[i] = "/" /\ \A j \in (i + 1)..Len(s) : s[j] # "/"
  ELSE 0

\* The reference split at its last "/".
parseServiceRefAtLastSlash(serviceRef) ==
  LET i == LastSlash(serviceRef) IN
  IF i # 0
  THEN <<SubSeq(serviceRef, 1, i - 1), SubSeq(serviceRef, i + 1, Len(serviceRef))>>
  ELSE <<DefaultNamespace, serviceRef>>

\* parseServiceRef: <<namespace, service>>.
parseServiceRef(serviceRef) ==
  LET i == FirstSlash(serviceRef) IN
  IF i # 0
  THEN <<SubSeq(serviceRef, 1, i - 1), SubSeq(serviceRef, i + 1, Len(serviceRef))>>
  ELSE <<DefaultNamespace, serviceRef>>

\* ensureNetworkPolicy, lines 357-423: the rules it computes.
ingressRules(spec) == <<SameNamespaceRule>>

\* The rules with the internet rule appended before the whitelist loop.
egressRulesInternetFirst(spec) ==
  LET items == spec.whitelistedServices.items IN
  <<DNSRule>>
    \o (IF spec.allowInternetAccess THEN <<InternetRule>> ELSE <<>>)
    \o [i \in 1..Len(items) |-> ServiceRule(parseServiceRef(items[i])[1])]

egressRules(spec) ==
  LET items == spec.whitelistedServices.items IN
  <<DNSRule>>
    \o [i \in 1..Len(items) |-> ServiceRule(parseServiceRef(items[i])[1])]
    \o (IF spec.allowInternetAccess THEN <<InternetRule>> ELSE <<>>)

\* The reconstruction selecting by the service name of each entry.
driftEgressRulesByService(spec) ==
  LET items == spec.whitelistedServices.items IN
  <<DNSRule>>
    \o [i \in 1..Len(items) |-> ServiceRule(parseServiceRef(items[i])[2])]
    \o (IF spec.allowInternetAccess THEN <<InternetRule>> ELSE <<>>)

\* detectAndCorrectNetworkPolicyDrift, lines 523-582: the rules it
\* reconstructs.
driftIngressRules(spec) == <<SameNamespaceRule>>

driftEgressRules(spec) ==
  LET items == spec.whitelistedServices.items IN
  <<DNSRule>>
    \o [i \in 1..Len(items) |-> ServiceRule(parseServiceRef(items[i])[1])]
    \o (IF spec.allowInternetAccess THEN <<InternetRule>> ELSE <<>>)

\* The rules of a policy as kept in the cluster: <<ingress, egress>>.
PolicyData(ingress, egress) == <<ingress, egress>>

\* A rule list with its i-th rule removed.
RemoveAt(rules, i) == SubSeq(rules, 1, i - 1) \o SubSeq(rules, i + 1, Len(rules))

(***************************************************************************)
(* Desired content of the objects of a tenant.  A quantity is written as   *)
(* the text it was parsed from.                                            *)
(***************************************************************************)
\* Both defaults taken as soon as one of the two fails to parse.
parseResourcesTogether(cpu, memory) ==
  IF cpu # <<>> /\ ParseQuantityOk(cpu) /\ memory # <<>> /\ ParseQuantityOk(memory)
  THEN <<cpu, memory>>
  ELSE <<DefaultCPU, DefaultMemory>>

\* parseResources: <<cpu, memory>>, each the default unless it is given and
\* resource.ParseQuantity accepts it.
parseResources(cpu, memory) ==
  << IF cpu # <<>> /\ ParseQuantityOk(cpu) THEN cpu ELSE DefaultCPU,
     IF memory # <<>> /\ ParseQuantityOk(memory) THEN memory ELSE DefaultMemory >>

\* The quota is <<requests.cpu, requests.memory, limits.cpu, limits.memory,
\* pods>>; the Helm values ConfigMap names the release and quotes
\* spec.resources as written.
Desired(kind, spec) ==
  CASE kind = "Namespace" -> <<spec.tier, spec.owner>>
    [] kind = "ResourceQuota" ->
         LET qty == parseResources(spec.cpu, spec.memory) IN
         <<qty[1], qty[2], qty[1], qty[2], "100">>
    [] kind = "ServiceAccount" -> <<"tenant-admin">>
    [] kind = "Role" -> <<"tenant-admin", "*">>
    [] kind = "RoleBinding" -> <<"tenant-admin-binding">>
    [] kind = "NetworkPolicy" -> PolicyData(ingressRules(spec), egressRules(spec))
    [] kind = "ConfigMap" -> <<"vcluster-values", spec.cpu, spec.memory>>
    [] OTHER -> <<KubeconfigSecretSuffix>>

\* What r.Get of the secret vc-<release> finds under the key "config":
\* <<>> when the call fails, as it does until a virtual cluster is deployed.
SourceCredentials == {<<>>, <<"vc-kubeconfig">>}

\* No placeholder: the export carries whatever the source read returned.
ExportedCredentialAsRead(spec, source) == source

\* ensureKubeconfigSecret, lines 160-174: the credential it exports, the
\* synthetic kubeconfig when the source could not be read.
ExportedCredential(spec, source) ==
  IF source = <<>> THEN Desired("Secret", spec) ELSE source

(***************************************************************************)
(* Initial state: an empty cluster and an idle controller.                 *)
(***************************************************************************)
Init ==
  /\ store = [n \in Names |-> NoTenant]
  /\ cluster = [n \in Names |-> NoObjects]
  /\ uids = 0
  /\ wq = EmptyQueue
  /\ wk = [w \in Workers |-> IdleWorker]
  /\ webhooks \in BOOLEAN
  /\ settled = FALSE
  /\ faults = 0
  /\ adm = NoAdmission
  /\ np = NoPolicyCase

(***************************************************************************)
(* The users and the API server.                                           *)
(***************************************************************************)
\* A user creates a declaration; the webhooks, when installed, default and
\* validate it.
UserCreate(n, spec) ==
  LET s == IF webhooks THEN Default(spec) ELSE spec IN
  /\ ~settled
  /\ store[n].uid = 0
  /\ uids < MaxIncarnations
  /\ webhooks => ValidateCreate(s).kind = "allowed"
  /\ store' = [store EXCEPT ![n] = NewTenant(uids + 1, s)]
  /\ uids' = uids + 1
  /\ wq' = QAdd(wq, n)
  /\ wk' = Touch(wk, n, 0)
  /\ UNCHANGED <<cluster, webhooks, settled, faults, adm, np>>

\* A user changes the specification; metadata.generation is incremented.
UserUpdate(n, spec) ==
  LET s == IF webhooks THEN Default(spec) ELSE spec
      new == [store[n] EXCEPT !.spec = s, !.generation = @ + 1] IN
  /\ ~settled
  /\ store[n].uid # 0
  /\ store[n].generation < MaxGen
  /\ s # store[n].spec
  /\ webhooks => ValidateUpdate(store[n].spec, s).kind = "allowed"
  /\ store' = [store EXCEPT ![n] = new]
  /\ wq' = OnUpdate(wq, n, store[n], new)
  /\ wk' = Touch(wk, n, 0)
  /\ UNCHANGED <<cluster, uids, webhooks, settled, faults, adm, np>>

\* A user deletes the declaration: with a finalizer it is only marked
\* (deletionTimestamp set, generation incremented), without one it is gone.
UserDelete(n) ==
  LET marked == [store[n] EXCEPT !.deletionTimestamp = 1, !.generation = @ + 1] IN
  /\ ~settled
  /\ store[n].uid # 0
  /\ store[n].deletionTimestamp = 0
  /\ IF store[n].finalizer
     THEN /\ store' = [store EXCEPT ![n] = marked]
          /\ wq' = OnUpdate(wq, n, store[n], marked)
     ELSE /\ store' = [store EXCEPT ![n] = NoTenant]
          /\ wq' = QAdd(wq, n)
  /\ wk' = Touch(wk, n, 0)
  /\ UNCHANGED <<cluster, uids, webhooks, settled, faults, adm, np>>

\* From here on every API call succeeds and the users leave the
\* declarations alone.
Settle ==
  /\ ~settled
  /\ settled' = TRUE
  /\ UNCHANGED <<store, cluster, uids, wq, wk, webhooks, faults, adm, np>>

\* The garbage collector removes a namespace whose owner is gone, and with
\* it everything inside; the owned-object watch queues the owner's key.
GarbageCollect(n) ==
  /\ cluster[n]["Namespace"].owner # 0
  /\ cluster[n]["Namespace"].owner # store[n].uid
  /\ cluster' = [cluster EXCEPT ![n] = NoObjects]
  /\ wq' = QAdd(wq, n)
  /\ UNCHANGED <<store, uids, wk, webhooks, settled, faults, adm, np>>

\* A user edits the default-deny policy of a tenant by hand, removing its
\* last egress rule, and that is the last thing users do.  The controller watches
\* Tenants, Namespaces and Secrets: no event reaches it.
ManualEdit(n) ==
  LET o == cluster[n]["NetworkPolicy"] IN
  /\ ~settled
  /\ o.owner # 0
  /\ o.owner = store[n].uid
  /\ store[n].deletionTimestamp = 0
  /\ o.data[2] # <<>>
  /\ cluster' = [cluster EXCEPT ![n]["NetworkPolicy"].data =
                   PolicyData(o.data[1], RemoveAt(o.data[2], Len(o.data[2])))]
  /\ settled' = TRUE
  /\ UNCHANGED <<store, uids, wq, wk, webhooks, faults, adm, np>>

(***************************************************************************)
(* The controller's workers.                                               *)
(***************************************************************************)
\* A delayed key (rate limited or RequeueAfter) is added to the queue.
TimerFire(n) ==
  /\ n \in wq.delayed
  /\ wq' = QAdd([wq EXCEPT !.delayed = @ \ {n}], n)
  /\ UNCHANGED <<store, cluster, uids, wk, webhooks, settled, faults, adm, np>>

\* An idle worker takes the key at the head of the queue.
WorkerGet(w) ==
  /\ wk[w].pc = "idle"
  /\ \A v \in Workers : v < w => wk[v].pc # "idle"
  /\ wq.queue # <<>>
  /\ wq' = QGet(wq)
  /\ wk' = [wk EXCEPT ![w] = [IdleWorker EXCEPT !.pc = "Get", !.key = Head(wq.queue)]]
  /\ UNCHANGED <<store, cluster, uids, webhooks, settled, faults, adm, np>>

\* reconcileHandler after Reconcile returned: an error or Requeue adds the
\* key rate limited, RequeueAfter adds it after the delay; then Done.
WorkerDone(w) ==
  LET res == wk[w].result
      again == res.err # <<>> \/ res.requeue \/ res.requeueAfter > 0
      q == IF again THEN QAddLater(wq, wk[w].key) ELSE wq IN
  /\ wk[w].pc = "done"
  /\ wq' = QDone(q, wk[w].key)
  /\ wk' = [wk EXCEPT ![w] = IdleWorker]
  /\ UNCHANGED <<store, cluster, uids, webhooks, settled, faults, adm, np>>

(***************************************************************************)
(* Reconcile, one action per API call.                                     *)
(***************************************************************************)
\* r.Get of the Tenant: a missing declaration ends the invocation without
\* error; a found one is branched on.
Get(w) ==
  LET r == wk[w]
      got == [r EXCEPT !.obj = store[r.key], !.stale = FALSE] IN
  /\ r.pc = "Get"
  /\ \E ok \in Outcomes : Charge(ok) /\
       wk' = [wk EXCEPT ![w] =
                IF ~ok THEN ReturnError(r, <<APIError>>)
                ELSE IF store[r.key].uid = 0 THEN Return(r, NoResult)
                ELSE AfterGet(got)]
  /\ UNCHANGED <<store, cluster, uids, wq, webhooks, settled, adm, np>>

\* r.Update adding the finalizer, with its error only logged: the
\* invocation goes on whether or not the finalizer was persisted.
AddFinalizerUnchecked(w) ==
  LET r == wk[w]
      n == r.key
      new == [r.obj EXCEPT !.status = store[n].status] IN
  /\ r.pc = "AddFinalizer"
  /\ \E ok \in Outcomes : Charge(ok) /\
       IF Accepts(w, ok)
       THEN /\ store' = [store EXCEPT ![n] = new]
            /\ wq' = OnUpdate(wq, n, store[n], new)
            /\ wk' = [Touch(wk, n, w) EXCEPT ![w] =
                        AfterFinalizer([Wrote(r, "Update", TRUE) EXCEPT !.obj = new])]
       ELSE /\ wk' = [wk EXCEPT ![w] = AfterFinalizer(Wrote(r, "Update", FALSE))]
            /\ UNCHANGED <<store, wq>>
  /\ UNCHANGED <<cluster, uids, webhooks, settled, adm, np>>

\* r.Update adding the finalizer: the copy in memory is stored, metadata
\* and spec; the status is a subresource and stays as stored.
AddFinalizer(w) ==
  LET r == wk[w]
      n == r.key
      new == [r.obj EXCEPT !.status = store[n].status] IN
  /\ r.pc = "AddFinalizer"
  /\ \E ok \in Outcomes : Charge(ok) /\
       IF Accepts(w, ok)
       THEN /\ store' = [store EXCEPT ![n] = new]
            /\ wq' = OnUpdate(wq, n, store[n], new)
            /\ wk' = [Touch(wk, n, w) EXCEPT ![w] =
                        AfterFinalizer([Wrote(r, "Update", TRUE) EXCEPT !.obj = new])]
       ELSE /\ wk' = [wk EXCEPT ![w] =
                        ReturnError([Wrote(r, "Update", FALSE)
                                       EXCEPT !.errInc = @ + 1], <<APIError>>)]
            /\ UNCHANGED <<store, wq>>
  /\ UNCHANGED <<cluster, uids, webhooks, settled, adm, np>>

\* r.Status().Update of the Provisioning state.
SetProvisioning(w) ==
  LET r == wk[w]
      n == r.key
      new == [store[n] EXCEPT !.status = r.obj.status] IN
  /\ r.pc = "SetProvisioning"
  /\ \E ok \in Outcomes : Charge(ok) /\
       IF Accepts(w, ok)
       THEN /\ store' = [store EXCEPT ![n] = new]
            /\ wq' = OnUpdate(wq, n, store[n], new)
            /\ wk' = [Touch(wk, n, w) EXCEPT ![w] =
                        Dispatch([Wrote(r, "Status", TRUE) EXCEPT !.obj = new])]
       ELSE /\ wk' = [wk EXCEPT ![w] =
                        ReturnRequeue(Wrote(r, "Status", FALSE),
                                      <<APIError>>)]
            /\ UNCHANGED <<store, wq>>
  /\ UNCHANGED <<cluster, uids, webhooks, settled, adm, np>>

\* ensureNamespace: the namespace is created with the controller reference
\* or updated in place; a creation is seen by the owned-object watch.
ensureNamespace(w) ==
  LET r == Called(wk[w], "ensureNamespace")
      n == r.key
      o == cluster[n]["Namespace"] IN
  /\ wk[w].pc = "ensureNamespace"
  /\ \E ok \in Outcomes : Charge(ok) /\
       IF ok
       THEN /\ cluster' = [cluster EXCEPT ![n]["Namespace"] =
                             CreateOrUpdate(o, r.obj.uid,
                               Stored("Namespace", Desired("Namespace", r.obj.spec)))]
            /\ wq' = IF o.owner = 0 THEN QAdd(wq, n) ELSE wq
            /\ wk' = [wk EXCEPT ![w] =
                        [r EXCEPT !.pc = "ensureResourceQuota",
                                  !.obj.status.namespace = buildNamespaceName(n)]]
       ELSE /\ wk' = [wk EXCEPT ![w] =
                        Fail(r, SilverError(r, "namespace creation failed"))]
            /\ UNCHANGED <<cluster, wq>>
  /\ UNCHANGED <<store, uids, webhooks, settled, adm, np>>

\* ensureResourceQuota.
ensureResourceQuota(w) ==
  LET r == Called(wk[w], "ensureResourceQuota")
      n == r.key IN
  /\ wk[w].pc = "ensureResourceQuota"
  /\ \E ok \in InnerOutcomes(n) : ChargeInner(n, ok) /\
       IF ok
       THEN /\ cluster' = [cluster EXCEPT ![n]["ResourceQuota"] =
                             CreateOrUpdate(@, r.obj.uid, Desired("ResourceQuota", r.obj.spec))]
            /\ wk' = [wk EXCEPT ![w] = [r EXCEPT !.pc = "ensureRBAC"]]
       ELSE /\ wk' = [wk EXCEPT ![w] =
                        Fail(r, SilverError(r, "resource quota creation failed"))]
            /\ UNCHANGED cluster
  /\ UNCHANGED <<store, uids, wq, webhooks, settled, adm, np>>

RBACKinds == <<"ServiceAccount", "Role", "RoleBinding">>

\* ensureRBAC: service account, role and role binding are written in this
\* order; the first k writes succeed and the function returns at the first
\* that fails.
ensureRBAC(w) ==
  LET r == Called(wk[w], "ensureRBAC")
      n == r.key
      present == cluster[n]["Namespace"].owner # 0
      done(k) == {RBACKinds[i] : i \in 1..k} IN
  /\ wk[w].pc = "ensureRBAC"
  /\ \E k \in (IF ~present THEN {0} ELSE IF FALSE \in Outcomes THEN 0..3 ELSE {3}) :
       /\ faults' = IF k = 3 \/ ~present THEN faults ELSE faults + 1
       /\ cluster' = [cluster EXCEPT ![n] =
                        [kind \in Kinds |->
                           IF kind \in done(k)
                           THEN CreateOrUpdate(cluster[n][kind], r.obj.uid,
                                               Desired(kind, r.obj.spec))
                           ELSE cluster[n][kind]]]
       /\ wk' = [wk EXCEPT ![w] =
                   IF k = 3 THEN [r EXCEPT !.pc = "ensureNetworkPolicy"]
                   ELSE Fail(r, SilverError(r, "RBAC creation failed"))]
  /\ UNCHANGED <<store, uids, wq, webhooks, settled, adm, np>>

\* reconcileGoldTier going straight to the credential, without deploying
\* the virtual cluster.
AfterSilverSkippingVCluster(r) ==
  LET ready == [r EXCEPT !.obj.status.state = StateReady] IN
  IF r.obj.spec.tier = GoldTier
  THEN [ready EXCEPT !.pc = "ensureKubeconfigSecret"]
  ELSE Succeed(ready)

\* reconcileSilverTier after its last provisioner, and reconcileGoldTier
\* going on from there.
AfterSilver(r) ==
  LET ready == [r EXCEPT !.obj.status.state = StateReady] IN
  IF r.obj.spec.tier = GoldTier
  THEN [ready EXCEPT !.pc = "ensureVCluster"]
  ELSE Succeed(ready)

\* ensureNetworkPolicy removing, for a Silver declaration, what only Gold
\* needs.
ensureNetworkPolicyPruning(w) ==
  LET r == Called(wk[w], "ensureNetworkPolicy")
      n == r.key IN
  /\ wk[w].pc = "ensureNetworkPolicy"
  /\ \E ok \in InnerOutcomes(n) : ChargeInner(n, ok) /\
       IF ok
       THEN /\ cluster' = [cluster EXCEPT
                             ![n]["NetworkPolicy"] =
                               CreateOrUpdate(@, r.obj.uid, Desired("NetworkPolicy", r.obj.spec)),
                             ![n]["ConfigMap"] =
                               IF r.obj.spec.tier = GoldTier THEN @ ELSE Absent,
                             ![n]["Secret"] =
                               IF r.obj.spec.tier = GoldTier THEN @ ELSE Absent]
            /\ wk' = [wk EXCEPT ![w] = AfterSilver(r)]
       ELSE /\ wk' = [wk EXCEPT ![w] =
                        Fail(r, SilverError(r, "network policy creation failed"))]
            /\ UNCHANGED cluster
  /\ UNCHANGED <<store, uids, wq, webhooks, settled, adm, np>>

\* ensureNetworkPolicy.
ensureNetworkPolicy(w) ==
  LET r == Called(wk[w], "ensureNetworkPolicy")
      n == r.key IN
  /\ wk[w].pc = "ensureNetworkPolicy"
  /\ \E ok \in InnerOutcomes(n) : ChargeInner(n, ok) /\
       IF ok
       THEN /\ cluster' = [cluster EXCEPT ![n]["NetworkPolicy"] =
                             CreateOrUpdate(@, r.obj.uid, Desired("NetworkPolicy", r.obj.spec))]
            /\ wk' = [wk EXCEPT ![w] = AfterSilver(r)]
       ELSE /\ wk' = [wk EXCEPT ![w] =
                        Fail(r, SilverError(r, "network policy creation failed"))]
            /\ UNCHANGED cluster
  /\ UNCHANGED <<store, uids, wq, webhooks, settled, adm, np>>

\* ensureVCluster: the Helm values ConfigMap is created, or kept as it is
\* (the mutate function is empty); what waitForVClusterReady returns is only
\* logged.
ensureVCluster(w) ==
  LET r == Called(wk[w], "ensureVCluster")
      n == r.key IN
  /\ wk[w].pc = "ensureVCluster"
  /\ \E ok \in InnerOutcomes(n) : ChargeInner(n, ok) /\
       IF ok
       THEN /\ cluster' = [cluster EXCEPT ![n]["ConfigMap"] =
                             CreateOrKeep(@, r.obj.uid, Desired("ConfigMap", r.obj.spec))]
            /\ wk' = [wk EXCEPT ![w] = [r EXCEPT !.pc = "ensureKubeconfigSecret"]]
       ELSE /\ wk' = [wk EXCEPT ![w] =
                        Fail(r, <<"vCluster deployment failed", APIError>>)]
            /\ UNCHANGED cluster
  /\ UNCHANGED <<store, uids, wq, webhooks, settled, adm, np>>

\* ensureKubeconfigSecret: the credential Secret is written and the status
\* fields of the virtual cluster are set; a creation is seen by the
\* owned-object watch.  Nothing in the repository deploys a virtual
\* cluster, so the source credential is unreadable and the synthetic
\* kubeconfig is what is exported.
ensureKubeconfigSecret(w) ==
  LET r == Called(wk[w], "ensureKubeconfigSecret")
      n == r.key
      o == cluster[n]["Secret"] IN
  /\ wk[w].pc = "ensureKubeconfigSecret"
  /\ \E ok \in InnerOutcomes(n) : ChargeInner(n, ok) /\
       IF ok
       THEN /\ cluster' = [cluster EXCEPT ![n]["Secret"] =
                             CreateOrUpdate(o, r.obj.uid, Desired("Secret", r.obj.spec))]
            /\ wq' = IF o.owner = 0 THEN QAdd(wq, n) ELSE wq
            /\ wk' = [wk EXCEPT ![w] =
                        Succeed([r EXCEPT
                          !.obj.status.adminKubeconfigSecret = <<n, KubeconfigSecretSuffix>>,
                          !.obj.status.apiEndpoint = <<n, "vcluster", NamespacePrefix, n>>,
                          !.obj.status.state = StateReady])]
       ELSE /\ wk' = [wk EXCEPT ![w] =
                        Fail(r, <<"kubeconfig retrieval failed", APIError>>)]
            /\ UNCHANGED <<cluster, wq>>
  /\ UNCHANGED <<store, uids, webhooks, settled, adm, np>>

\* The failure swallowed: an empty result and no error.
FailureResultSwallowed(e) == NoResult

\* Reconcile, line 339: what the failure path returns.
FailureResult(e) ==
  [requeue |-> FALSE, requeueAfter |-> RequeueInterval, err |-> e]

\* Reconcile, lines 335-339: the status write of the failure path; its
\* error is only logged.
StatusFailed(w) ==
  LET r == wk[w]
      n == r.key
      new == [store[n] EXCEPT !.status = r.obj.status]
      res == FailureResult(r.err) IN
  /\ r.pc = "StatusFailed"
  /\ \E ok \in Outcomes : Charge(ok) /\
       IF Accepts(w, ok)
       THEN /\ store' = [store EXCEPT ![n] = new]
            /\ wq' = OnUpdate(wq, n, store[n], new)
            /\ wk' = [Touch(wk, n, w) EXCEPT ![w] =
                        Return([Wrote(r, "Status", TRUE) EXCEPT !.obj = new], res)]
       ELSE /\ wk' = [wk EXCEPT ![w] =
                        Return(Wrote(r, "Status", FALSE), res)]
            /\ UNCHANGED <<store, wq>>
  /\ UNCHANGED <<cluster, uids, webhooks, settled, adm, np>>

\* Reconcile, lines 345-353: the status write of the success path, and
\* after it metrics.RecordActiveTenant, which increments the gauge of the
\* tier (recorded holds the tiers this invocation has incremented).
StatusFinal(w) ==
  LET r == wk[w]
      n == r.key
      new == [store[n] EXCEPT !.status = r.obj.status] IN
  /\ r.pc = "StatusFinal"
  /\ \E ok \in Outcomes : Charge(ok) /\
       IF Accepts(w, ok)
       THEN /\ store' = [store EXCEPT ![n] = new]
            /\ wq' = OnUpdate(wq, n, store[n], new)
            /\ wk' = [Touch(wk, n, w) EXCEPT ![w] =
                        Return([Wrote(r, "Status", TRUE) EXCEPT
                                  !.obj = new,
                                  !.recorded = Append(@, new.spec.tier)],
                               NoResult)]
       ELSE /\ wk' = [wk EXCEPT ![w] =
                        ReturnRequeue([Wrote(r, "Status", FALSE)
                                         EXCEPT !.errInc = @ + 1], <<APIError>>)]
            /\ UNCHANGED <<store, wq>>
  /\ UNCHANGED <<cluster, uids, webhooks, settled, adm, np>>

\* handleDeletion, lines 408-411: the status write of the Terminating
\* state; its error is only logged.  The finalizer is then removed from
\* the copy in memory.
StatusTerminating(w) ==
  LET r == wk[w]
      n == r.key
      new == [store[n] EXCEPT !.status = r.obj.status] IN
  /\ r.pc = "StatusTerminating"
  /\ \E ok \in Outcomes : Charge(ok) /\
       IF Accepts(w, ok)
       THEN /\ store' = [store EXCEPT ![n] = new]
            /\ wq' = OnUpdate(wq, n, store[n], new)
            /\ wk' = [Touch(wk, n, w) EXCEPT ![w] =
                        [Wrote(r, "Status", TRUE) EXCEPT
                           !.obj = [new EXCEPT !.finalizer = FALSE],
                           !.pc = "RemoveFinalizer"]]
       ELSE /\ wk' = [wk EXCEPT ![w] =
                        [Wrote(r, "Status", FALSE) EXCEPT
                           !.obj.finalizer = FALSE,
                           !.pc = "RemoveFinalizer"]]
            /\ UNCHANGED <<store, wq>>
  /\ UNCHANGED <<cluster, uids, webhooks, settled, adm, np>>

\* handleDeletion, lines 413-418: r.Update without the finalizer; the API
\* server then removes the declaration, which has no finalizer left.
RemoveFinalizer(w) ==
  LET r == wk[w]
      n == r.key IN
  /\ r.pc = "RemoveFinalizer"
  /\ \E ok \in Outcomes : Charge(ok) /\
       IF Accepts(w, ok)
       THEN /\ store' = [store EXCEPT ![n] = NoTenant]
            /\ wq' = QAdd(wq, n)
            /\ wk' = [Touch(wk, n, w) EXCEPT ![w] =
                        Return(Wrote(r, "Update", TRUE), NoResult)]
       ELSE /\ wk' = [wk EXCEPT ![w] =
                        ReturnError(Wrote(r, "Update", FALSE),
                                    <<APIError>>)]
            /\ UNCHANGED <<store, wq>>
  /\ UNCHANGED <<cluster, uids, webhooks, settled, adm, np>>

(***************************************************************************)
(* The operator in its cluster.                                            *)
(***************************************************************************)
Step(w) ==
  \/ Get(w)
  \/ AddFinalizer(w)
  \/ SetProvisioning(w)
  \/ ensureNamespace(w)
  \/ ensureResourceQuota(w)
  \/ ensureRBAC(w)
  \/ ensureNetworkPolicy(w)
  \/ ensureVCluster(w)
  \/ ensureKubeconfigSecret(w)
  \/ StatusFailed(w)
  \/ StatusFinal(w)
  \/ StatusTerminating(w)
  \/ RemoveFinalizer(w)

Environment ==
  \/ \E n \in Names : \E spec \in UserSpecs(webhooks) : UserCreate(n, spec)
  \/ \E n \in Names : \E spec \in UserSpecs(webhooks) : UserUpdate(n, spec)
  \/ \E n \in Names : UserDelete(n)
  \/ Settle
  \/ \E n \in Names : GarbageCollect(n)
  \/ \E n \in Names : ManualEdit(n)

Next ==
  \/ Environment
  \/ \E n \in Names : TimerFire(n)
  \/ \E w \in Workers : WorkerGet(w)
  \/ \E w \in Workers : Step(w)
  \/ \E w \in Workers : WorkerDone(w)

Spec == Init /\ [][Next]_vars

(***************************************************************************)
(* Admission: one request passes the mutating, then the validating         *)
(* webhook.                                                                *)
(***************************************************************************)
Owners == {<<>>, ValidOwner, <<"A", "@", "b">>, <<"a", "b">>}

CPUs == {<<>>, <<"5", "0", "0", "m">>, <<"x">>}

Memories == {<<>>, <<"1", "G", "i">>, <<"G", "i">>}

\* Whitelists as submitted: absent, empty, and with one entry.
SubmittedWhitelists == { NilList, List(<<>>), List(<< <<"s", "/", "a">> >>) }

\* The declarations submitted for admission.
SubmittedSpecs ==
  { [ MkSpec(tier, owner, cpu, memory, allow) EXCEPT !.whitelistedServices = wl ] :
      tier \in Tiers \cup {"", UnknownTier}, owner \in Owners,
      cpu \in CPUs, memory \in Memories, allow \in BOOLEAN,
      wl \in SubmittedWhitelists }

\* The declarations an update request finds stored.
StoredSpecs ==
  { MkSpec(tier, ValidOwner, DefaultCPU, DefaultMemory, allow) :
      tier \in Tiers \cup {UnknownTier}, allow \in BOOLEAN }

Pending == [kind |-> "pending", fields |-> <<>>]

Requests ==
  { [ phase |-> "request", op |-> op, old |-> old, submitted |-> new,
      new |-> new, mutated |-> FALSE, response |-> Pending ] :
      op \in {"create", "update", "delete"}, old \in StoredSpecs,
      new \in SubmittedSpecs }

InitAdmission ==
  /\ store = [n \in Names |-> NoTenant]
  /\ cluster = [n \in Names |-> NoObjects]
  /\ uids = 0
  /\ wq = EmptyQueue
  /\ wk = [w \in Workers |-> IdleWorker]
  /\ webhooks = TRUE
  /\ settled = FALSE
  /\ faults = 0
  /\ adm \in Requests
  /\ np = NoPolicyCase

\* The mutating webhook defaults the object of a create or update request.
AdmitDefault ==
  /\ adm.phase = "request"
  /\ adm.op # "delete"
  /\ adm' = [adm EXCEPT !.phase = "defaulted", !.new = Default(adm.new),
                         !.mutated = TRUE]
  /\ UNCHANGED <<store, cluster, uids, wq, wk, webhooks, settled, faults, np>>

\* The validating webhook decides the request, defaulted or (where the
\* mutating webhook is not registered for it) as submitted.
AdmitValidate ==
  /\ adm.phase \in {"request", "defaulted"}
  /\ adm' = [adm EXCEPT
               !.phase = "decided",
               !.response = CASE adm.op = "create" -> ValidateCreate(adm.new)
                              [] adm.op = "update" -> ValidateUpdate(adm.old, adm.new)
                              [] OTHER -> ValidateDelete(adm.old)]
  /\ UNCHANGED <<store, cluster, uids, wq, wk, webhooks, settled, faults, np>>

NextAdmission == AdmitDefault \/ AdmitValidate

SpecAdmission == InitAdmission /\ [][NextAdmission]_vars

(***************************************************************************)
(* The default-deny policy of one tenant: ensureNetworkPolicy and          *)
(* detectAndCorrectNetworkPolicyDrift applied to a live policy that users  *)
(* edit by hand, for the declarations of PolicySpecs.                      *)
(***************************************************************************)
MaxServices == 2
MaxEdits == 1

\* Whitelist entries: namespace/service, a bare service name, an entry
\* with a port and one with a second "/".
ServiceRefs ==
  { <<"s", "/", "a">>, <<"t", "/", "a">>, <<"a">>,
    <<"s", "/", "b", ":", "8">>, <<"s", "/", "a", "/", "b">> }

Whitelists ==
  {NilList} \cup
    { List(items) : items \in UNION { [1..k -> ServiceRefs] : k \in 0..MaxServices } }

PolicySpecs ==
  { [ MkSpec(SilverTier, ValidOwner, <<>>, <<>>, FALSE) EXCEPT
        !.whitelistedServices = wl, !.allowInternetAccess = allow ] :
      wl \in Whitelists, allow \in BOOLEAN }

\* The UID of the Tenant the policy is created for.
PolicyOwner == 1

\* What a call may meet at the API server.
APIOutcomes == {"ok", "get fails", "write fails"}

\* The request controllerutil.CreateOrUpdate ends with: Create for an
\* absent object, Update for one the mutate function changed, none else.
WriteIssued(o, data) ==
  IF o.owner = 0 THEN <<"Create">>
  ELSE IF o.data # data THEN <<"Update">> ELSE <<>>

\* The result of a call on policy object o: the object afterwards, the
\* writes that reached the cluster and whether an error was returned.
Outcome(o, writes, err) == [obj |-> o, writes |-> writes, err |-> err]

\* ensureNetworkPolicy, lines 425-460, on the live object o.
ensurePolicy(o, uid, spec, api) ==
  LET data == PolicyData(ingressRules(spec), egressRules(spec)) IN
  IF api = "get fails" THEN Outcome(o, <<>>, TRUE)
  ELSE IF WriteIssued(o, data) = <<>> THEN Outcome(o, <<>>, FALSE)
  ELSE IF api = "write fails" THEN Outcome(o, <<>>, TRUE)
  ELSE Outcome(CreateOrUpdate(o, uid, data), WriteIssued(o, data), FALSE)

\* detectAndCorrectNetworkPolicyDrift, lines 583-585: the comparison.
Drifted(o, spec) ==
  \/ Len(o.data[1]) # Len(driftIngressRules(spec))
  \/ Len(o.data[2]) # Len(driftEgressRules(spec))

\* detectAndCorrectNetworkPolicyDrift on the live object o.
detectAndCorrectNetworkPolicyDrift(o, spec, api) ==
  IF api = "get fails" THEN Outcome(o, <<>>, TRUE)
  ELSE IF o.owner = 0 THEN Outcome(o, <<>>, FALSE)
  ELSE IF ~Drifted(o, spec) THEN Outcome(o, <<>>, FALSE)
  ELSE IF api = "write fails" THEN Outcome(o, <<>>, TRUE)
  ELSE Outcome([o EXCEPT !.data = PolicyData(driftIngressRules(spec),
                                             driftEgressRules(spec))],
               <<"Update">>, FALSE)

\* A rule list after one manual edit: a rule removed, a rule replaced by
\* one that opens the policy, or such a rule added.
EditedRules(rules) ==
  { RemoveAt(rules, i) : i \in 1..Len(rules) }
    \cup { [rules EXCEPT ![i] = InternetRule] : i \in 1..Len(rules) }
    \cup { Append(rules, InternetRule) }

EditedPolicies(o) ==
  ( { [o EXCEPT !.data = PolicyData(in, o.data[2])] : in \in EditedRules(o.data[1]) }
    \cup { [o EXCEPT !.data = PolicyData(o.data[1], eg)] : eg \in EditedRules(o.data[2]) } )
  \ {o}

InitPolicy ==
  /\ store = [n \in Names |-> NoTenant]
  /\ cluster = [n \in Names |-> NoObjects]
  /\ uids = 0
  /\ wq = EmptyQueue
  /\ wk = [w \in Workers |-> IdleWorker]
  /\ webhooks = TRUE
  /\ settled = FALSE
  /\ faults = 0
  /\ adm = NoAdmission
  /\ \E spec \in PolicySpecs : np = [NoPolicyCase EXCEPT !.spec = spec]

Applied(op, res) ==
  [ np EXCEPT !.op = op, !.prev = IF np.err THEN "failed" ELSE np.op,
              !.before = np.obj, !.obj = res.obj,
              !.writes = res.writes, !.err = res.err ]

\* The engine runs ensureNetworkPolicy.
PolicyEnsure ==
  /\ \E api \in APIOutcomes :
       np' = Applied("ensure", ensurePolicy(np.obj, PolicyOwner, np.spec, api))
  /\ UNCHANGED <<store, cluster, uids, wq, wk, webhooks, settled, faults, adm>>

\* The drift detector runs.
PolicyDetect ==
  /\ \E api \in APIOutcomes :
       np' = Applied("detect",
                     detectAndCorrectNetworkPolicyDrift(np.obj, np.spec, api))
  /\ UNCHANGED <<store, cluster, uids, wq, wk, webhooks, settled, faults, adm>>

\* A user edits the live policy by hand.
PolicyEdit ==
  /\ np.obj.owner # 0
  /\ np.edits < MaxEdits
  /\ \E o \in EditedPolicies(np.obj) :
       np' = [ Applied("edit", Outcome(o, <<>>, FALSE)) EXCEPT !.edits = @ + 1 ]
  /\ UNCHANGED <<store, cluster, uids, wq, wk, webhooks, settled, faults, adm>>

\* A user toggles allowInternetAccess in the declaration.
PolicyToggle ==
  /\ np' = [ Applied("toggle", Outcome(np.obj, <<>>, FALSE)) EXCEPT
               !.spec.allowInternetAccess = ~@ ]
  /\ UNCHANGED <<store, cluster, uids, wq, wk, webhooks, settled, faults, adm>>

(***************************************************************************)
(* One managed object of a tenant and the provisioner that ensures it,     *)
(* invoked again and again while time passes and the declaration changes.  *)
(***************************************************************************)
MaxClock == 2

ProvisionSpecs ==
  { [ MkSpec(tier, ValidOwner, cpu, memory, FALSE) EXCEPT
        !.whitelistedServices = IF open THEN List(<< <<"s", "/", "a">> >>) ELSE NilList,
        !.allowInternetAccess = open ] :
      tier \in {SilverTier, GoldTier}, cpu \in CPUs, memory \in Memories,
      open \in BOOLEAN }

\* The kinds whose mutate function is empty: ServiceAccount (helpers.go
\* 152-154) and the ConfigMap of ensureVCluster (vcluster.go 91-93).
KeptKinds == {"ServiceAccount", "ConfigMap"}

\* The object a provisioner builds in memory: the ConfigMap carries the
\* time of the call as deployment-time, the Secret the credential read
\* from the source.
Built(kind, spec, now, source) ==
  IF kind = "ConfigMap" THEN Append(Desired(kind, spec), now)
  ELSE IF kind = "Secret" THEN ExportedCredential(spec, source)
  ELSE Desired(kind, spec)

\* The provisioner of the given kind on the live object o, at time now,
\* with the source credential as it is then.
ensureObject(kind, o, uid, spec, now, source, api) ==
  LET data == Built(kind, spec, now, source)
      writes == IF o.owner # 0 /\ kind \in KeptKinds THEN <<>>
                ELSE WriteIssued(o, data) IN
  IF api = "get fails" THEN Outcome(o, <<>>, TRUE)
  ELSE IF writes = <<>> THEN Outcome(o, <<>>, FALSE)
  ELSE IF api = "write fails" THEN Outcome(o, <<>>, TRUE)
  ELSE Outcome([ owner |-> IF o.owner = 0 THEN uid ELSE o.owner,
                 data |-> Stored(kind, data) ], writes, FALSE)

InitProvision ==
  /\ store = [n \in Names |-> NoTenant]
  /\ cluster = [n \in Names |-> NoObjects]
  /\ uids = 0
  /\ wq = EmptyQueue
  /\ wk = [w \in Workers |-> IdleWorker]
  /\ webhooks = TRUE
  /\ settled = FALSE
  /\ faults = 0
  /\ adm = NoAdmission
  /\ \E kind \in Kinds : \E spec \in ProvisionSpecs :
       np = [NoPolicyCase EXCEPT !.kind = kind, !.spec = spec]

\* The engine invokes the provisioner of the object's kind; np.api records
\* what its calls met at the API server.  ensureKubeconfigSecret, when it
\* returns nil, has set status.adminKubeconfigSecret to the name of the
\* Secret.
ProvisionEnsure ==
  /\ \E api \in APIOutcomes : \E n \in Names :
       LET res == ensureObject(np.kind, np.obj, PolicyOwner, np.spec, np.now,
                               np.source, api) IN
       np' = [ Applied("ensure", res) EXCEPT
                 !.api = api,
                 !.status = IF np.kind = "Secret" /\ ~res.err
                            THEN <<n, KubeconfigSecretSuffix>> ELSE @ ]
  /\ UNCHANGED <<store, cluster, uids, wq, wk, webhooks, settled, faults, adm>>

\* Time passes.
ProvisionTick ==
  /\ np.now < MaxClock
  /\ np' = [np EXCEPT !.now = @ + 1]
  /\ UNCHANGED <<store, cluster, uids, wq, wk, webhooks, settled, faults, adm>>

\* A user changes one setting of the declaration, or the credential of the
\* virtual cluster appears or goes.
ProvisionChange ==
  /\ \E spec \in ProvisionSpecs : \E source \in SourceCredentials :
       /\ LET old == <<np.spec.tier, np.spec.cpu, np.spec.memory,
                       np.spec.allowInternetAccess, np.source>>
              new == <<spec.tier, spec.cpu, spec.memory,
                       spec.allowInternetAccess, source>> IN
          Cardinality({i \in 1..5 : old[i] # new[i]}) = 1
       /\ np' = [ Applied("change", Outcome(np.obj, <<>>, FALSE)) EXCEPT
                    !.spec = spec, !.source = source ]
  /\ UNCHANGED <<store, cluster, uids, wq, wk, webhooks, settled, faults, adm>>

NextProvision == ProvisionEnsure \/ ProvisionTick \/ ProvisionChange

SpecProvision == InitProvision /\ [][NextProvision]_vars

NextPolicy == PolicyEnsure \/ PolicyDetect \/ PolicyEdit \/ PolicyToggle

SpecPolicy == InitPolicy /\ [][NextPolicy]_vars

(***************************************************************************)
(* The update filter on its own: the API server stores one version of a    *)
(* Tenant after another, the Namespace and the Secret the Tenant owns are  *)
(* updated, and the informers hand each update event to the filter.  np    *)
(* records the last event of an owned object and, in err, whether the      *)
(* filter panicked on it; the process does not survive a panic and handles *)
(* no event after it.                                                      *)
(***************************************************************************)
\* Deletion timestamps of the versions; 0 is nil.
MaxDeletionTime == 2

\* SetupWithManager, Owns: the kinds whose events the controller watches
\* besides Tenant.
OwnedKinds == {"Namespace", "Secret"}

InitFilter ==
  /\ \E spec \in UserSpecs(FALSE) : \E d \in 0..MaxDeletionTime : \E f \in BOOLEAN :
       store = [n \in Names |->
                  [NewTenant(1, spec) EXCEPT !.deletionTimestamp = d, !.finalizer = f]]
  /\ cluster = [n \in Names |->
                  [k \in Kinds |->
                     IF k \in OwnedKinds
                     THEN CreateOrUpdate(Absent, 1, Desired(k, store[n].spec))
                     ELSE Absent]]
  /\ uids = 1
  /\ wq = EmptyQueue
  /\ wk = [w \in Workers |-> IdleWorker]
  /\ webhooks = FALSE
  /\ settled = FALSE
  /\ faults = 0
  /\ adm = NoAdmission
  /\ np = NoPolicyCase

\* Tenant n is stored again with any of its spec, deletion timestamp,
\* finalizer and status state changed; a change of the spec or of the
\* timestamp increments metadata.generation.
UpdateEvent(n) ==
  /\ \E spec \in UserSpecs(FALSE) : \E d \in 0..MaxDeletionTime : \E f \in BOOLEAN :
     \E state \in {"", StateProvisioning, StateReady} :
       LET old == store[n]
           changed == spec # old.spec \/ d # old.deletionTimestamp
           new == [ old EXCEPT !.spec = spec, !.deletionTimestamp = d,
                               !.finalizer = f, !.status.state = state,
                               !.generation = IF changed THEN @ + 1 ELSE @ ] IN
       /\ ~np.err
       /\ new # old
       /\ new.generation <= MaxGen
       /\ store' = [store EXCEPT ![n] = new]
       /\ wq' = OnUpdate(wq, n, old, new)
  /\ UNCHANGED <<cluster, uids, wk, webhooks, settled, faults, adm, np>>

\* The owned object of the given kind of tenant n is stored with other
\* content (the labels of the Namespace, the kubeconfig of the Secret) and
\* its update event goes through the filter: passed, it queues the owner.
OwnedUpdateEvent(n, kind) ==
  /\ ~np.err
  /\ cluster[n][kind].owner # 0
  /\ \E spec \in UserSpecs(FALSE) : \E source \in SourceCredentials :
       LET old == cluster[n][kind]
           new == [old EXCEPT !.data = IF kind = "Secret"
                                       THEN ExportedCredential(spec, source)
                                       ELSE Desired(kind, spec)]
           decision == UpdateFuncOn(kind, old, new) IN
       /\ new # old
       /\ cluster' = [cluster EXCEPT ![n][kind] = new]
       /\ wq' = IF decision = "pass" THEN QAdd(wq, n) ELSE wq
       /\ np' = [np EXCEPT !.kind = kind, !.op = "update event",
                          !.before = old, !.obj = new,
                          !.err = (decision = "panic")]
  /\ UNCHANGED <<store, uids, wk, webhooks, settled, faults, adm>>

NextFilter ==
  \/ \E n \in Names : UpdateEvent(n)
  \/ \E n \in Names : \E kind \in OwnedKinds : OwnedUpdateEvent(n, kind)

SpecFilter == InitFilter /\ [][NextFilter]_vars

(***************************************************************************)
(* The readiness wait of ensureVCluster: waitForVClusterReady polling the  *)
(* StatefulSet of the virtual cluster while that workload changes.  np.obj *)
(* is the StatefulSet (owner only marks that it exists, data is            *)
(* <<replicas, readyReplicas>>), np.now the seconds since the call, np.op  *)
(* the position of the call and np.prev what the wait returned.            *)
(***************************************************************************)
\* timeout := 5 * time.Minute, in seconds.
WaitTimeout == 300

MaxReplicas == 2

\* A context that never expires.
ctxNeverDone(now) == FALSE

\* <-ctx.Done() of the context with the timeout is ready.
ctxDone(now) == now >= WaitTimeout

StatefulSets ==
  {Absent} \cup
    { [owner |-> PolicyOwner, data |-> <<r, k>>] : r \in 0..MaxReplicas, k \in 0..MaxReplicas }

InitWait ==
  /\ store = [n \in Names |-> NoTenant]
  /\ cluster = [n \in Names |-> NoObjects]
  /\ uids = 0
  /\ wq = EmptyQueue
  /\ wk = [w \in Workers |-> IdleWorker]
  /\ webhooks = TRUE
  /\ settled = FALSE
  /\ faults = 0
  /\ adm = NoAdmission
  /\ \E ss \in StatefulSets :
       np = [NoPolicyCase EXCEPT !.kind = "StatefulSet", !.obj = ss, !.op = "waiting"]

\* One turn of the loop of waitForVClusterReady: the select, r.Get and the
\* sleep that follows it (5 s after a failed Get, 10 s after a StatefulSet
\* not yet ready); on its return ensureVCluster logs the error and returns
\* nil.  The clock stops at the latest time a sleep can end.
waitForVClusterReady ==
  LET ss == np.obj
      later(d) == IF np.now + d > WaitTimeout + 10 THEN WaitTimeout + 10 ELSE np.now + d IN
  /\ np.op = "waiting"
  /\ IF ctxDone(np.now)
     THEN np' = [np EXCEPT !.op = "returned", !.prev = "timeout", !.err = FALSE]
     ELSE \E api \in {"ok", "get fails"} :
            IF api = "get fails" \/ ss.owner = 0
            THEN np' = [np EXCEPT !.now = later(5)]
            ELSE IF ss.data[2] >= 1 /\ ss.data[1] = ss.data[2]
            THEN np' = [np EXCEPT !.op = "returned", !.prev = "ready", !.err = FALSE]
            ELSE np' = [np EXCEPT !.now = later(10)]
  /\ UNCHANGED <<store, cluster, uids, wq, wk, webhooks, settled, faults, adm>>

\* The StatefulSet is created, scaled, becomes ready or not, or is removed.
WorkloadChange ==
  /\ np.op = "waiting"
  /\ \E ss \in StatefulSets \ {np.obj} : np' = [np EXCEPT !.obj = ss]
  /\ UNCHANGED <<store, cluster, uids, wq, wk, webhooks, settled, faults, adm>>

NextWait == waitForVClusterReady \/ WorkloadChange

\* The goroutine running the wait keeps running.
SpecWait == InitWait /\ [][NextWait]_vars /\ WF_vars(waitForVClusterReady)

(***************************************************************************)
(* The worker pool: MaxConcurrentReconciles workers serving the keys of    *)
(* several tenants.  An invocation is reduced to what it does to its       *)
(* worker: it returns, or it reaches the readiness wait of ensureVCluster  *)
(* and holds the worker until the StatefulSet is found ready or the        *)
(* timeout has passed.  The calls of an invocation are the turns its wait  *)
(* has made.                                                               *)
(***************************************************************************)
\* One tenant more than there are workers.
PoolKeys == {"t1", "t2", "t3", "t4"}

\* The clock of a wait advances in MaxPolls strides, each standing for the
\* turns of the loop made in WaitTimeout / MaxPolls seconds, and stops at
\* the timeout.
MaxPolls == 1

Elapsed(r) == Len(r.calls) * (WaitTimeout \div MaxPolls)

\* ss.Status.ReadyReplicas >= 1 && ss.Status.Replicas == ss.Status.ReadyReplicas
StatefulSetReady(ss) == ss.owner # 0 /\ ss.data[2] >= 1 /\ ss.data[1] = ss.data[2]

\* What r.Get of the StatefulSet may find: none, or one that is ready.
FoundStatefulSets == {Absent, [owner |-> PolicyOwner, data |-> <<1, 1>>]}

InitPool ==
  /\ store = [n \in Names |-> NoTenant]
  /\ cluster = [n \in Names |-> NoObjects]
  /\ uids = 0
  /\ wq = EmptyQueue
  /\ wk = [w \in Workers |-> IdleWorker]
  /\ webhooks = FALSE
  /\ settled = FALSE
  /\ faults = 0
  /\ adm = NoAdmission
  /\ np = NoPolicyCase

\* An event of tenant k passes the filter: its key is added to the queue.
PoolEvent(k) ==
  /\ wq' = QAdd(wq, k)
  /\ wq' # wq
  /\ UNCHANGED <<store, cluster, uids, wk, webhooks, settled, faults, adm, np>>

\* Reconcile up to its return or, for a Gold declaration whose provisioners
\* succeeded, up to the call of waitForVClusterReady.
ReconcileToWait(w) ==
  /\ wk[w].pc = "Get"
  /\ \/ wk' = [wk EXCEPT ![w] = Return(@, NoResult)]
     \/ wk' = [wk EXCEPT ![w].pc = "ensureVCluster"]
  /\ UNCHANGED <<store, cluster, uids, wq, webhooks, settled, faults, adm, np>>

\* One turn of the wait of worker w's invocation, r.Get finding ss: at the
\* timeout or with the StatefulSet ready the wait returns, and the
\* invocation after it; else the loop goes on.
PoolWait(w, ss) ==
  LET r == wk[w] IN
  /\ r.pc = "ensureVCluster"
  /\ wk' = [wk EXCEPT ![w] =
              IF ctxDone(Elapsed(r)) \/ StatefulSetReady(ss)
              THEN Return(r, NoResult)
              ELSE IF Len(r.calls) < MaxPolls
              THEN Called(r, "waitForVClusterReady")
              ELSE r]
  /\ UNCHANGED <<store, cluster, uids, wq, webhooks, settled, faults, adm, np>>

NextPool ==
  \/ \E k \in PoolKeys : PoolEvent(k)
  \/ \E w \in Workers : WorkerGet(w)
  \/ \E w \in Workers : ReconcileToWait(w)
  \/ \E w \in Workers : \E ss \in FoundStatefulSets : PoolWait(w, ss)
  \/ \E w \in Workers : WorkerDone(w)

\* The goroutines of the workers keep running.  Scheduling gives the wait
\* its turns, not the cluster's answers: fairness is asked of the turn
\* that finds no StatefulSet only.
PoolFairness ==
  \A w \in Workers :
    /\ WF_vars(WorkerGet(w))
    /\ WF_vars(ReconcileToWait(w))
    /\ WF_vars(PoolWait(w, Absent))
    /\ WF_vars(WorkerDone(w))

SpecPool == InitPool /\ [][NextPool]_vars /\ PoolFairness

(***************************************************************************)
(* C1.  For every pair of tiers with the new tier strictly lower than the  *)
(* old one, ValidateUpdate rejects the update when allowTierMigration is   *)
(* false, and accepts it when the flag is true and the other fields are    *)
(* valid.                                                                  *)
(***************************************************************************)
IsDowngrade(old, new) ==
  /\ old.tier \in Tiers
  /\ new.tier \in Tiers
  /\ tierOrder(new.tier) < tierOrder(old.tier)

C1_DowngradeNeedsFlag ==
  (adm.phase = "decided" /\ adm.op = "update" /\ IsDowngrade(adm.old, adm.new))
    => /\ ~adm.new.allowTierMigration => adm.response.kind = "forbidden"
       /\ (adm.new.allowTierMigration /\ FieldErrors(adm.new) = <<>>)
            => adm.response.kind = "allowed"

\* A downgrade from Gold to Bronze refused for want of the flag.
C1_Witness ==
  /\ adm.phase = "decided" /\ adm.op = "update"
  /\ adm.old.tier = GoldTier /\ adm.new.tier = BronzeTier
  /\ ~adm.new.allowTierMigration
  /\ adm.response.kind = "forbidden"

(***************************************************************************)
(* Vocabulary of the claims about Reconcile.                               *)
(***************************************************************************)
SilverOrder ==
  <<"ensureNamespace", "ensureResourceQuota", "ensureRBAC", "ensureNetworkPolicy">>

GoldOrder == SilverOrder \o <<"ensureVCluster", "ensureKubeconfigSecret">>

ProvisionerOrder(tier) ==
  CASE tier = SilverTier -> SilverOrder
    [] tier = GoldTier -> GoldOrder
    [] OTHER -> <<>>

StepMessage(call) ==
  CASE call = "ensureNamespace" -> "namespace creation failed"
    [] call = "ensureResourceQuota" -> "resource quota creation failed"
    [] call = "ensureRBAC" -> "RBAC creation failed"
    [] call = "ensureNetworkPolicy" -> "network policy creation failed"
    [] call = "ensureVCluster" -> "vCluster deployment failed"
    [] OTHER -> "kubeconfig retrieval failed"

IsPrefix(s, t) == Len(s) <= Len(t) /\ s = SubSeq(t, 1, Len(s))

Last(s) == s[Len(s)]

Write(op, state, ok) == [op |-> op, state |-> state, ok |-> ok]

SilverProvisioned(n) ==
  /\ store[n].status.state = StateReady
  /\ store[n].status.namespace = buildNamespaceName(n)
  /\ store[n].status.lastUpdateTime
  /\ \A kind \in SilverKinds : cluster[n][kind].owner # 0

\* Worker w has just ended an invocation that found a new Silver
\* declaration without status and whose every call succeeded.
FreshSilverRun(r) ==
  /\ r.pc = "done"
  /\ r.obj.spec.tier = SilverTier
  /\ FieldErrors(r.obj.spec) = <<>>
  /\ r.calls = SilverOrder
  /\ r.writes = << Write("Update", "", TRUE),
                   Write("Status", StateProvisioning, TRUE),
                   Write("Status", StateReady, TRUE) >>
  /\ r.result = NoResult

(***************************************************************************)
(* C2.  From a newly created valid Silver declaration with no status, and  *)
(* with every write to the cluster succeeding, one Reconcile ends with     *)
(* state Ready, status.namespace tenant-<name> and lastUpdateTime          *)
(* persisted, and with the namespace, quota, service account, role, role   *)
(* binding and default-deny network policy all present.                    *)
(***************************************************************************)
C2_FreshSilverReconcile ==
  [][ \A w \in Workers :
        (wk[w].pc = "StatusFinal" /\ FreshSilverRun(wk'[w]))
          => SilverProvisioned(wk[w].key)' ]_vars

\* A first Reconcile of a Silver declaration that ends as the claim says.
C2_Witness ==
  \E w \in Workers : FreshSilverRun(wk[w]) /\ SilverProvisioned(wk[w].key)

(***************************************************************************)
(* C3.  The provisioners are invoked in the order namespace, quota, RBAC,  *)
(* network policy and, for Gold, virtual cluster, credential; the first    *)
(* failure ends the sequence, and the error returned is that step's.       *)
(***************************************************************************)
ProvisionerSteps ==
  { "ensureNamespace", "ensureResourceQuota", "ensureRBAC", "ensureNetworkPolicy",
    "ensureVCluster", "ensureKubeconfigSecret" }

C3_ProvisionerOrder ==
  \A w \in Workers :
    LET r == wk[w]
        order == ProvisionerOrder(r.obj.spec.tier) IN
    /\ IsPrefix(r.calls, order)
    /\ r.pc \in ProvisionerSteps =>
         Len(r.calls) < Len(order) /\ r.pc = order[Len(r.calls) + 1]
    /\ r.pc = "StatusFinal" => r.calls = order
    /\ (r.err # <<>> /\ r.calls # <<>>) =>
         /\ r.pc \in {"StatusFailed", "done"}
         /\ \E i \in 1..Len(r.err) : r.err[i] = StepMessage(Last(r.calls))
    /\ (r.err # <<>> /\ r.pc = "done") => r.result.err = r.err

\* A Gold invocation ended by the failure of its third provisioner.
C3_Witness ==
  \E w \in Workers :
    /\ wk[w].pc = "done"
    /\ wk[w].obj.spec.tier = GoldTier
    /\ wk[w].calls = SubSeq(GoldOrder, 1, 3)
    /\ wk[w].result.err =
         <<"failed to set up base Silver tier resources", "RBAC creation failed", APIError>>

(***************************************************************************)
(* C4.  Whenever the tier dispatch returns an error (a provisioner failed, *)
(* or the tier is unknown, for which no provisioner runs), the invocation  *)
(* persists state Failed and lastError = the error text, increments the    *)
(* error counter exactly once and asks for a retry after 30 seconds.       *)
(***************************************************************************)
RetryLater(e) == [requeue |-> FALSE, requeueAfter |-> 30, err |-> e]

C4_FailurePersisted ==
  [][ \A w \in Workers :
        wk[w].pc = "StatusFailed" /\ wk'[w].pc = "done" =>
          /\ store'[wk[w].key].status.state = StateFailed
          /\ store'[wk[w].key].status.lastError = wk[w].err
          /\ wk'[w].errInc = 1
          /\ wk'[w].result = RetryLater(wk[w].err) ]_vars

\* Every error of the dispatch takes the failure path, and an unknown tier
\* has run no provisioner.
DispatchErrorsHandled ==
  \A w \in Workers :
    LET r == wk[w] IN
    /\ r.err # <<>> => r.pc \in {"StatusFailed", "done"}
    /\ r.pc = "StatusFailed" => r.err # <<>>
    /\ (r.err # <<>> /\ r.obj.spec.tier \notin {SilverTier, GoldTier}) =>
         r.calls = <<>> /\ r.err = <<"unknown tier", r.obj.spec.tier>>

\* The failure path ends: the status is written if the API server accepts
\* the write; a rejected write (a conflict, an API error) leaves the
\* declaration as it was.
FailureReported(w) ==
  wk[w].pc = "StatusFailed" /\ wk'[w].pc = "done" =>
    LET n == wk[w].key
        write == Last(wk'[w].writes) IN
    /\ write.op = "Status" /\ write.state = StateFailed
    /\ wk[w].obj.status.lastError = wk[w].err
    /\ IF write.ok
       THEN /\ store'[n].status.state = StateFailed
            /\ store'[n].status.lastError = wk[w].err
       ELSE store'[n] = store[n]
    /\ wk'[w].errInc = 1
    /\ wk'[w].result = RetryLater(wk[w].err)

\* C4 as amended: every dispatch error takes the failure path, which submits
\* state Failed and lastError = the error text (persisted when the write is
\* accepted), increments the error counter exactly once and asks for a retry
\* after 30 seconds.
C4_FailureReported ==
  /\ []DispatchErrorsHandled
  /\ [][\A w \in Workers : FailureReported(w)]_vars

\* An unknown tier reported: Failed persisted with the error text.
C4_Witness ==
  \E w \in Workers :
    /\ wk[w].pc = "done"
    /\ wk[w].err = <<"unknown tier", UnknownTier>>
    /\ wk[w].calls = <<>>
    /\ Last(wk[w].writes).ok
    /\ store[wk[w].key].status.state = StateFailed
    /\ store[wk[w].key].status.lastError = wk[w].err
    /\ wk[w].result = RetryLater(wk[w].err)

(***************************************************************************)
(* The operator scheduled fairly: a worker that can take a key, make its   *)
(* next call or finish does so, and a timer that is due fires.             *)
(***************************************************************************)
Fairness ==
  /\ \A w \in Workers : WF_vars(WorkerGet(w))
  /\ \A w \in Workers : WF_vars(Step(w))
  /\ \A w \in Workers : WF_vars(WorkerDone(w))
  /\ \A n \in Names : WF_vars(TimerFire(n))

\* Admission plays no part in the retries: the fair specification is the
\* operator without the webhooks, where users can store every tier.
InitFair == Init /\ ~webhooks

FairSpec == InitFair /\ [][Next]_vars /\ Fairness

\* The garbage collector of the cluster keeps running as well: an object
\* whose owner is gone is eventually removed.
ClusterFairness == \A n \in Names : WF_vars(GarbageCollect(n))

\* The operator, the users who create, update and delete declarations,
\* and the garbage collector.  API calls fail up to MaxFaults times in a
\* behaviour, so that they succeed from some point on.
NextDeletion ==
  \/ \E n \in Names : \E spec \in UserSpecs(webhooks) : UserCreate(n, spec)
  \/ \E n \in Names : \E spec \in UserSpecs(webhooks) : UserUpdate(n, spec)
  \/ \E n \in Names : UserDelete(n)
  \/ \E n \in Names : GarbageCollect(n)
  \/ \E n \in Names : TimerFire(n)
  \/ \E w \in Workers : WorkerGet(w)
  \/ \E w \in Workers : Step(w)
  \/ \E w \in Workers : WorkerDone(w)

SpecDeletion ==
  InitFair /\ [][NextDeletion]_vars /\ Fairness /\ ClusterFairness

(***************************************************************************)
(* C5.  Under fair scheduling of the retries, a Failed tenant whose        *)
(* provisioners stop failing eventually reaches Ready, with no change of   *)
(* the declaration and no action of an operator.                           *)
(***************************************************************************)
\* Tenant n is Failed, of a tier that has provisioning, not being deleted,
\* and nothing fails or is changed by a user from now on.
FailedAndSettled(n) ==
  /\ settled
  /\ store[n].uid # 0
  /\ store[n].deletionTimestamp = 0
  /\ store[n].spec.tier \in Tiers
  /\ store[n].status.state = StateFailed

C5_FailedRecovers ==
  \A n \in Names : FailedAndSettled(n) ~> store[n].status.state = StateReady

\* A Silver tenant recorded Failed, after which nothing fails any more.
C5_Witness ==
  \E n \in Names :
    /\ FailedAndSettled(n)
    /\ store[n].spec.tier = SilverTier
    /\ store[n].status.lastError = <<"namespace creation failed", APIError>>

(***************************************************************************)
(* C6.  Two reconcile invocations for the same tenant are never in flight  *)
(* at the same time.                                                       *)
(***************************************************************************)
C6_OneInvocationPerTenant ==
  \A v, w \in Workers :
    (v # w /\ wk[v].pc # "idle" /\ wk[w].pc # "idle") => wk[v].key # wk[w].key

\* An event for a tenant arrives while an invocation for it is in flight.
C6_Witness ==
  \E w \in Workers :
    /\ wk[w].pc \notin {"idle", "done"}
    /\ wk[w].key \in wq.dirty
    /\ wk[w].key \in wq.processing

(***************************************************************************)
(* C7.  In every reachable state, a tenant whose state is Ready has        *)
(* observedGeneration equal to its generation.                             *)
(***************************************************************************)
C7_ReadyIsObserved ==
  \A n \in Names :
    (store[n].uid # 0 /\ store[n].status.state = StateReady)
      => store[n].status.observedGeneration = store[n].generation

\* A reconcile request for n is waiting, being served or due later.
ReconcilePending(n) ==
  \/ n \in wq.dirty
  \/ n \in wq.processing
  \/ n \in wq.delayed

\* C7 as amended: a Ready tenant has observedGeneration equal to its
\* generation, except after a change of the specification or a deletion
\* request not yet reconciled: then observedGeneration is the smaller and a
\* reconcile request is pending.
C7_ReadyIsObservedOrPending ==
  \A n \in Names :
    (store[n].uid # 0 /\ store[n].status.state = StateReady)
      => \/ store[n].status.observedGeneration = store[n].generation
         \/ /\ store[n].status.observedGeneration < store[n].generation
            /\ ReconcilePending(n)

\* A changed specification has been reconciled: Ready at generation 2.
C7_Witness ==
  \E n \in Names :
    /\ store[n].status.state = StateReady
    /\ store[n].generation = 2
    /\ store[n].status.observedGeneration = 2

(***************************************************************************)
(* C8.  Every change of the persisted state is one of unset ->             *)
(* Provisioning, Provisioning -> Ready, Provisioning -> Failed, Ready ->   *)
(* Failed, Failed -> Provisioning, any -> Terminating; no other occurs     *)
(* (not Failed -> Ready directly, nor any into Suspended).                 *)
(***************************************************************************)
ClaimedTransitions ==
  { <<"", StateProvisioning>>, <<StateProvisioning, StateReady>>,
    <<StateProvisioning, StateFailed>>, <<StateReady, StateFailed>>,
    <<StateFailed, StateProvisioning>> }
  \cup { <<s, StateTerminating>> : s \in TenantStates }

\* What Reconcile does: a Failed tenant goes to Ready directly, and never
\* back to Provisioning.
ActualTransitions ==
  { <<"", StateProvisioning>>, <<StateProvisioning, StateReady>>,
    <<StateProvisioning, StateFailed>>, <<StateReady, StateFailed>>,
    <<StateFailed, StateReady>> }
  \cup { <<s, StateTerminating>> : s \in TenantStates }

\* The persisted state of one and the same declaration changes in this step.
StateChanges(n) ==
  /\ store[n].uid # 0
  /\ store'[n].uid = store[n].uid
  /\ store'[n].status.state # store[n].status.state

C8_ClaimedTransitions ==
  [][ \A n \in Names :
        StateChanges(n) =>
          <<store[n].status.state, store'[n].status.state>> \in ClaimedTransitions ]_vars

\* C8 as amended: with Failed -> Ready in the place of Failed -> Provisioning.
C8_ActualTransitions ==
  [][ \A n \in Names :
        StateChanges(n) =>
          <<store[n].status.state, store'[n].status.state>> \in ActualTransitions ]_vars

\* A tenant recorded Failed whose retry is about to record Ready.
C8_Witness ==
  \E w \in Workers :
    /\ wk[w].pc = "StatusFinal"
    /\ ~wk[w].stale
    /\ store[wk[w].key].uid = wk[w].obj.uid
    /\ store[wk[w].key].status.state = StateFailed
    /\ wk[w].obj.status.state = StateReady

(***************************************************************************)
(* C9.  While a declaration marked for deletion still has the finalizer,   *)
(* its boundary and the objects inside continue to exist: they are removed *)
(* only after the finalizer is.                                            *)
(***************************************************************************)
\* Tenant n is marked for deletion and keeps its finalizer through the step.
HeldByFinalizer(n) ==
  /\ store[n].uid # 0
  /\ store[n].deletionTimestamp # 0
  /\ store[n].finalizer
  /\ store'[n] = store[n]

C9_ObjectsOutliveFinalizer ==
  [][ \A n \in Names :
        HeldByFinalizer(n) =>
          \A kind \in Kinds : cluster[n][kind].owner # 0 => cluster'[n][kind].owner # 0 ]_vars

\* A provisioned declaration marked for deletion, its finalizer in place.
C9_Witness ==
  \E n \in Names :
    /\ store[n].uid # 0
    /\ store[n].deletionTimestamp # 0
    /\ store[n].finalizer
    /\ \A kind \in SilverKinds : cluster[n][kind].owner # 0

(***************************************************************************)
(* C10.  When Reconcile observes a deletion timestamp and the finalizer,   *)
(* it sets state Terminating, removes the finalizer and persists both,     *)
(* invokes no provisioner and writes none of Provisioning, Ready, Failed.  *)
(***************************************************************************)
\* Reconcile reads, in this step, a declaration marked for deletion that
\* has the finalizer.
ObservesDeletion(w) ==
  /\ wk[w].pc = "Get"
  /\ wk'[w].obj.uid # 0
  /\ wk'[w].obj.deletionTimestamp # 0
  /\ store[wk[w].key].finalizer

\* The invocation that handles a deletion ends in this step.
DeletionHandled(w) == wk[w].pc = "RemoveFinalizer" /\ wk'[w].pc = "done"

C10_DeletionPersisted ==
  [][ \A w \in Workers :
        /\ ObservesDeletion(w) => wk'[w].pc = "StatusTerminating"
        /\ DeletionHandled(w) =>
             /\ wk'[w].writes = << Write("Status", StateTerminating, TRUE),
                                   Write("Update", StateTerminating, TRUE) >>
             /\ store'[wk[w].key].uid # wk[w].obj.uid
             /\ wk'[w].calls = <<>> ]_vars

\* C10 as amended: the invocation submits the Terminating status and then
\* the update without the finalizer; each takes effect when the API server
\* accepts it, and a rejected update is returned as the error, leaving the
\* finalizer in place.  No provisioner is invoked and no other state is
\* written.
C10_DeletionSubmitted ==
  [][ \A w \in Workers :
        LET n == wk[w].key IN
        /\ ObservesDeletion(w) => wk'[w].pc = "StatusTerminating"
        /\ (wk[w].pc = "StatusTerminating" /\ wk'[w].pc # "StatusTerminating") =>
             /\ wk'[w].pc = "RemoveFinalizer"
             /\ wk'[w].calls = <<>>
             /\ \E ok \in BOOLEAN :
                  /\ wk'[w].writes = <<Write("Status", StateTerminating, ok)>>
                  /\ IF ok
                     THEN /\ store'[n].status.state = StateTerminating
                          /\ store'[n].finalizer
                     ELSE store'[n] = store[n]
        /\ DeletionHandled(w) =>
             /\ wk'[w].calls = <<>>
             /\ Len(wk'[w].writes) = 2
             /\ Last(wk'[w].writes).op = "Update"
             /\ \A i \in 1..2 : wk'[w].writes[i].state = StateTerminating
             /\ IF Last(wk'[w].writes).ok
                THEN store'[n] = NoTenant /\ wk'[w].result = NoResult
                ELSE store'[n] = store[n] /\ wk'[w].result.err # <<>> ]_vars

\* A deletion handled to the end: Terminating recorded, the finalizer
\* removed and the declaration gone.
C10_Witness ==
  \E w \in Workers :
    /\ wk[w].pc = "done"
    /\ wk[w].writes = << Write("Status", StateTerminating, TRUE),
                         Write("Update", StateTerminating, TRUE) >>
    /\ store[wk[w].key].uid = 0

(***************************************************************************)
(* C11.  In the deletion branch a snapshot of the tenant's metadata is     *)
(* attempted before the finalizer is removed, and a failure to record the  *)
(* snapshot does not prevent the removal of the finalizer.                 *)
(***************************************************************************)
\* The invocation submits, in this step, the update that removes the
\* finalizer.
SubmitsFinalizerRemoval(w) == DeletionHandled(w)

\* The invocation has attempted the snapshot: takeSnapshotBeforeDeletion
\* was called, which issues the Create of the snapshot record.
SnapshotAttempted(r) ==
  \/ \E i \in 1..Len(r.calls) : r.calls[i] = "takeSnapshotBeforeDeletion"
  \/ \E i \in 1..Len(r.writes) : r.writes[i].op = "Create"

C11_SnapshotBeforeRemoval ==
  [][ \A w \in Workers :
        SubmitsFinalizerRemoval(w) => SnapshotAttempted(wk'[w]) ]_vars

\* The finalizer removed and the declaration gone, with no snapshot
\* attempted by the invocation that did it.
C11_Witness ==
  \E w \in Workers :
    /\ wk[w].pc = "done"
    /\ wk[w].obj.deletionTimestamp # 0
    /\ Len(wk[w].writes) = 2
    /\ Last(wk[w].writes) = Write("Update", StateTerminating, TRUE)
    /\ ~SnapshotAttempted(wk[w])
    /\ store[wk[w].key].uid = 0

(***************************************************************************)
(* C12.  No provisioner creates an infrastructure object for a declaration *)
(* before the finalizer has been persisted on it: a declaration that is    *)
(* not marked for deletion and owns at least one infrastructure object     *)
(* carries the finalizer, and if persisting the finalizer fails the        *)
(* invocation ends without running any provisioner.                        *)
(***************************************************************************)
\* The infrastructure objects whose controller reference names Tenant n.
Owned(n) == {kind \in Kinds : cluster[n][kind].owner = store[n].uid}

OwnerHasFinalizer ==
  \A n \in Names :
    (store[n].uid # 0 /\ store[n].deletionTimestamp = 0 /\ Owned(n) # {})
      => store[n].finalizer

\* The update that adds the finalizer is rejected in this step.
FinalizerRejected(w) ==
  /\ wk[w].pc = "AddFinalizer"
  /\ wk'[w].pc # "AddFinalizer"
  /\ ~Last(wk'[w].writes).ok

FinalizerFailureEnds(w) ==
  FinalizerRejected(w) =>
    /\ wk'[w].pc = "done"
    /\ wk'[w].calls = <<>>
    /\ wk'[w].result.err # <<>>
    /\ wk'[w].result.requeueAfter = 0
    /\ cluster' = cluster
    /\ store' = store

C12_FinalizerBeforeProvisioning ==
  /\ []OwnerHasFinalizer
  /\ [][\A w \in Workers : FinalizerFailureEnds(w)]_vars

\* An invocation ended by the rejected finalizer update: the declaration
\* is stored without the finalizer and owns nothing.
C12_Witness ==
  \E w \in Workers :
    /\ wk[w].pc = "done"
    /\ wk[w].writes = <<Write("Update", "", FALSE)>>
    /\ wk[w].calls = <<>>
    /\ store[wk[w].key].uid = wk[w].obj.uid
    /\ store[wk[w].key].deletionTimestamp = 0
    /\ ~store[wk[w].key].finalizer
    /\ Owned(wk[w].key) = {}

(***************************************************************************)
(* C13.  For any live default-deny policy whose ingress or egress rules    *)
(* differ from the desired rule set in count or in content, one invocation *)
(* of the drift detector leaves the live policy's rules equal to the       *)
(* desired set; when live and desired already match, it performs no write. *)
(***************************************************************************)
\* The rule set computed from the declaration.
DesiredPolicy(spec) == PolicyData(ingressRules(spec), egressRules(spec))

\* The drift detector has just returned without error on a live policy.
Detected == np.op = "detect" /\ ~np.err /\ np.before.owner # 0

C13_DriftCorrected ==
  Detected =>
    IF np.before.data # DesiredPolicy(np.spec)
    THEN np.obj.data = DesiredPolicy(np.spec)
    ELSE np.writes = <<>> /\ np.obj = np.before

\* The detector has returned without error and without a write on a policy
\* whose rules are as many as desired but not the desired ones.
C13_Witness ==
  /\ Detected
  /\ Len(np.before.data[1]) = Len(DesiredPolicy(np.spec)[1])
  /\ Len(np.before.data[2]) = Len(DesiredPolicy(np.spec)[2])
  /\ np.before.data # DesiredPolicy(np.spec)
  /\ np.writes = <<>>
  /\ np.obj = np.before

(***************************************************************************)
(* C14.  After a manual edit to a tenant's default-deny network policy,    *)
(* with no change to the tenant declaration, the engine eventually         *)
(* restores the policy to the rule set computed from the declaration.      *)
(***************************************************************************)
\* Tenant n is provisioned and stays as declared, its objects are its own,
\* and its policy has been edited by hand.
PolicyEdited(n) ==
  /\ settled
  /\ store[n].uid # 0
  /\ store[n].deletionTimestamp = 0
  /\ store[n].spec.tier \in {SilverTier, GoldTier}
  /\ cluster[n]["Namespace"].owner = store[n].uid
  /\ cluster[n]["NetworkPolicy"].owner = store[n].uid
  /\ cluster[n]["NetworkPolicy"].data # Desired("NetworkPolicy", store[n].spec)

PolicyRestored(n) ==
  /\ cluster[n]["NetworkPolicy"].owner # 0
  /\ cluster[n]["NetworkPolicy"].data = Desired("NetworkPolicy", store[n].spec)

C14_EditReverted ==
  \A n \in Names : PolicyEdited(n) ~> PolicyRestored(n)

\* A Ready tenant whose policy has been edited, with the controller idle:
\* nothing queued, nothing scheduled, no invocation running.
C14_Witness ==
  \E n \in Names :
    /\ PolicyEdited(n)
    /\ store[n].status.state = StateReady
    /\ store[n].status.observedGeneration = store[n].generation
    /\ wq = EmptyQueue
    /\ \A w \in Workers : wk[w].pc = "idle"

(***************************************************************************)
(* C15.  The computed default-deny policy has exactly one ingress rule     *)
(* (pods of the same boundary) and an egress list made of the DNS rule,    *)
(* then one namespace-scoped rule per whitelistedServices entry in list    *)
(* order (duplicates kept), then one 0.0.0.0/0 rule if and only if         *)
(* allowInternetAccess is true; toggling allowInternetAccess adds or       *)
(* removes exactly that one rule and changes no other rule.                *)
(***************************************************************************)
\* The namespace each service reference of this model names.
NamespaceNamed(ref) ==
  CASE ref = <<"s", "/", "a">> -> <<"s">>
    [] ref = <<"t", "/", "a">> -> <<"t">>
    [] ref = <<"s", "/", "b", ":", "8">> -> <<"s">>
    [] ref = <<"s", "/", "a", "/", "b">> -> <<"s">>
    [] OTHER -> DefaultNamespace

\* data is the policy the claim describes for the declaration spec.
AsClaimed(data, spec) ==
  LET items == spec.whitelistedServices.items
      ingress == data[1]
      egress == data[2]
      internet == IF spec.allowInternetAccess THEN 1 ELSE 0 IN
  /\ Len(ingress) = 1
  /\ ingress[1].kind = "podSelector"
  /\ Len(egress) = 1 + Len(items) + internet
  /\ egress[1].kind = "namespaceSelector"
  /\ egress[1].name = KubeSystem
  /\ egress[1].port = "UDP/53"
  /\ \A i \in 1..Len(items) :
       /\ egress[1 + i].kind = "namespaceSelector+podSelector"
       /\ egress[1 + i].name = NamespaceNamed(items[i])
  /\ spec.allowInternetAccess =>
       /\ egress[Len(egress)].kind = "ipBlock"
       /\ egress[Len(egress)].name = AnyAddress
  /\ Cardinality({i \in 1..Len(egress) : egress[i].kind = "ipBlock"}) = internet

Toggled(spec) == [spec EXCEPT !.allowInternetAccess = ~@]

\* ensureNetworkPolicy has just written or kept the policy.
Ensured == np.op = "ensure" /\ ~np.err

C15_ComputedPolicy ==
  Ensured =>
    /\ AsClaimed(np.obj.data, np.spec)
    /\ (np.before.owner # 0 /\ AsClaimed(np.before.data, Toggled(np.spec))) =>
         /\ np.obj.data[1] = np.before.data[1]
         /\ IF np.spec.allowInternetAccess
            THEN np.obj.data[2] = Append(np.before.data[2], InternetRule)
            ELSE np.before.data[2] = Append(np.obj.data[2], InternetRule)

\* The policy of a declaration that lists one service twice, rewritten
\* after allowInternetAccess was switched on.
C15_Witness ==
  /\ Ensured
  /\ np.spec.allowInternetAccess
  /\ Len(np.spec.whitelistedServices.items) = 2
  /\ np.spec.whitelistedServices.items[1] = np.spec.whitelistedServices.items[2]
  /\ np.before.owner # 0
  /\ AsClaimed(np.before.data, Toggled(np.spec))
  /\ np.writes = <<"Update">>
  /\ Len(np.obj.data[2]) = 4

(***************************************************************************)
(* C16.  For each provisioner, invoking it a second time with an unchanged *)
(* declaration and unchanged cluster state issues no create and no update  *)
(* to the cluster.                                                         *)
(***************************************************************************)
\* The provisioner has returned without error twice in a row, with no
\* change of the declaration or of the object in between.
EnsuredTwice == np.op = "ensure" /\ ~np.err /\ np.prev = "ensure"

C16_SecondCallWritesNothing == EnsuredTwice => np.writes = <<>>

\* The second call of ensureNamespace in a row has sent an update that
\* left the namespace as it was.
C16_Witness ==
  /\ EnsuredTwice
  /\ np.kind = "Namespace"
  /\ np.writes = <<"Update">>
  /\ np.obj = np.before

(***************************************************************************)
(* C17.  In every reachable state, every object created by the engine's    *)
(* provisioners (namespace, quota, service account, role, role binding,    *)
(* network policy, companion control-plane configuration, credential       *)
(* secret) carries a controller owner reference to the declaration it was  *)
(* created for.                                                            *)
(***************************************************************************)
\* Every object names, as its controller, a declaration that was created.
OwnerIsADeclaration ==
  \A n \in Names : \A kind \in Kinds :
    cluster[n][kind] # Absent => cluster[n][kind].owner \in 1..uids

\* An object that appears in this step is created by a provisioner with the
\* UID of the declaration that provisioner is reconciling, and an object
\* that stays keeps its reference.
OwnerSetAtCreation ==
  \A n \in Names : \A kind \in Kinds :
    /\ (cluster[n][kind] = Absent /\ cluster'[n][kind] # Absent) =>
         \E w \in Workers :
           /\ wk[w].key = n
           /\ wk[w].pc \in ProvisionerSteps
           /\ wk[w].obj.uid # 0
           /\ cluster'[n][kind].owner = wk[w].obj.uid
    /\ (cluster[n][kind] # Absent /\ cluster'[n][kind] # Absent) =>
         cluster'[n][kind].owner = cluster[n][kind].owner

C17_OwnerReference ==
  /\ []OwnerIsADeclaration
  /\ [][OwnerSetAtCreation]_vars

\* All eight objects of a Gold tenant exist and name it as their owner,
\* after an earlier declaration of the same name was deleted.
C17_Witness ==
  \E n \in Names :
    /\ store[n].uid = 2
    /\ \A kind \in Kinds : cluster[n][kind].owner = 2

(***************************************************************************)
(* C18.  Defaulting sets tier to Silver when it is empty, lower-cases a    *)
(* non-empty owner, sets cpu to 1000m and memory to 1Gi when they are      *)
(* empty, and makes an empty whitelist an explicit empty list; every field *)
(* that was already non-empty (other than owner's casing) is left          *)
(* unchanged.                                                              *)
(***************************************************************************)
\* The owners of this model in lower case.
LowerCased(owner) ==
  IF owner = <<"A", "@", "b">> THEN <<"a", "@", "b">> ELSE owner

\* The mutating webhook has run on the submitted declaration.
Defaulted == adm.mutated

C18_Defaulting ==
  Defaulted =>
    LET s == adm.submitted
        d == adm.new IN
    /\ d.tier = IF s.tier = "" THEN "Silver" ELSE s.tier
    /\ d.owner = LowerCased(s.owner)
    /\ d.cpu = IF s.cpu = <<>> THEN <<"1", "0", "0", "0", "m">> ELSE s.cpu
    /\ d.memory = IF s.memory = <<>> THEN <<"1", "G", "i">> ELSE s.memory
    /\ IF s.whitelistedServices.items = <<>>
       THEN ~d.whitelistedServices.nil /\ d.whitelistedServices.items = <<>>
       ELSE d.whitelistedServices = s.whitelistedServices
    /\ d.allowInternetAccess = s.allowInternetAccess
    /\ d.allowTierMigration = s.allowTierMigration
    /\ d.suspend = s.suspend

\* A declaration defaulted in part: tier and memory were empty and the owner
\* in capitals, cpu and the whitelist were given and are kept.
C18_Witness ==
  /\ Defaulted
  /\ adm.submitted.tier = "" /\ adm.new.tier = "Silver"
  /\ adm.submitted.owner = <<"A", "@", "b">> /\ adm.new.owner = <<"a", "@", "b">>
  /\ adm.submitted.memory = <<>> /\ adm.new.memory = <<"1", "G", "i">>
  /\ adm.submitted.cpu = <<"5", "0", "0", "m">> /\ adm.new.cpu = adm.submitted.cpu
  /\ adm.submitted.whitelistedServices.items # <<>>
  /\ adm.new.whitelistedServices = adm.submitted.whitelistedServices

(***************************************************************************)
(* C19.  Validation of a declaration is rejected if and only if at least   *)
(* one of these holds: tier is not Bronze/Silver/Gold, owner is empty or   *)
(* not parseable as an email address, cpu is non-empty and unparseable,    *)
(* memory is non-empty and unparseable; the rejection carries one          *)
(* field-attributed error per failing field, all reported together.        *)
(***************************************************************************)
\* The values of this model that do not parse.
UnparseableOwners == { <<"a", "b">> }
UnparseableQuantities == { <<"x">>, <<"G", "i">> }

\* The fields of a declaration the claim names as failing, in the order
\* of the struct.
FailingFields(t) ==
  SelectSeq(<< <<"spec.tier", t.tier \notin {"Bronze", "Silver", "Gold"}>>,
               <<"spec.owner", t.owner = <<>> \/ t.owner \in UnparseableOwners>>,
               <<"spec.resources.cpu", t.cpu \in UnparseableQuantities>>,
               <<"spec.resources.memory", t.memory \in UnparseableQuantities>> >>,
            LAMBDA f : f[2])

\* ValidateCreate has decided a request.
CreateDecided == adm.phase = "decided" /\ adm.op = "create"

C19_ValidationErrors ==
  CreateDecided =>
    LET failing == FailingFields(adm.new) IN
    /\ adm.response.kind = "invalid" <=> failing # <<>>
    /\ adm.response.kind = "allowed" <=> failing = <<>>
    /\ Len(adm.response.fields) = Len(failing)
    /\ \A i \in 1..Len(failing) : adm.response.fields[i] = failing[i][1]

\* A create request rejected with four field errors at once, and decided
\* as submitted, with cpu left empty.
C19_Witness ==
  /\ CreateDecided
  /\ ~adm.mutated
  /\ adm.new.tier = "Platinum" /\ adm.new.owner = <<"a", "b">>
  /\ adm.new.cpu = <<"x">> /\ adm.new.memory = <<"G", "i">>
  /\ adm.response.kind = "invalid"
  /\ Len(adm.response.fields) = 4

(***************************************************************************)
(* C20.  On an update that is both a downgrade without                     *)
(* allowTierMigration=true and structurally invalid in its new declaration *)
(* (bad tier, owner, cpu or memory), ValidateUpdate returns the            *)
(* forbidden-transition error and never the field-validation error list.   *)
(***************************************************************************)
\* The update lowers the tier; a tier that is none of the three ranks
\* lowest, as a key missing from the tierOrder map.
LowersTier(old, new) == tierOrder(new.tier) < tierOrder(old.tier)

\* ValidateUpdate has decided a downgrade without the flag whose new
\* declaration has at least one failing field.
InvalidDowngradeDecided ==
  /\ adm.phase = "decided" /\ adm.op = "update"
  /\ LowersTier(adm.old, adm.new)
  /\ ~adm.new.allowTierMigration
  /\ FailingFields(adm.new) # <<>>

C20_ForbiddenBeforeInvalid ==
  InvalidDowngradeDecided =>
    /\ adm.response.kind = "forbidden"
    /\ adm.response.fields = <<adm.old.tier, adm.new.tier>>

\* Gold to Bronze without the flag and with an owner that is no address
\* and a cpu that is no quantity: forbidden.
C20_Witness ==
  /\ InvalidDowngradeDecided
  /\ adm.old.tier = "Gold" /\ adm.new.tier = "Bronze"
  /\ adm.new.owner = <<"a", "b">>
  /\ adm.new.cpu = <<"x">>
  /\ adm.response.kind = "forbidden"

(***************************************************************************)
(* C21.  For an update event on a Tenant, the filter of SetupWithManager   *)
(* passes the event (the key is added to the work queue) if and only if    *)
(* the spec differs between the old and the new object or the deletion     *)
(* timestamp differs: absent against present, or both present with         *)
(* different times.  An update that changes only the status or the         *)
(* finalizers leaves the queue as it is.                                   *)
(***************************************************************************)
TimestampDiffers(old, new) ==
  \/ (old.deletionTimestamp = 0) # (new.deletionTimestamp = 0)
  \/ /\ old.deletionTimestamp # 0
     /\ new.deletionTimestamp # 0
     /\ old.deletionTimestamp # new.deletionTimestamp

C21_ChangeFilter ==
  [][\A n \in Names :
       store'[n] # store[n] =>
         wq' = IF store'[n].spec # store[n].spec
                   \/ TimestampDiffers(store[n], store'[n])
                THEN QAdd(wq, n) ELSE wq]_vars

\* A Tenant whose status was written, and whose finalizer was set, with the
\* spec and the timestamp untouched: nothing was queued.
C21_Witness ==
  \E n \in Names :
    /\ store[n].status.state = StateReady
    /\ store[n].finalizer
    /\ store[n].generation = 1
    /\ store[n].deletionTimestamp = 2
    /\ wq = EmptyQueue

(***************************************************************************)
(* C22.  In every reachable state status.apiEndpoint and                   *)
(* status.adminKubeconfigSecret are non-empty only for Tenants whose tier  *)
(* is Gold, whatever tier changes and reconciliations have happened.       *)
(***************************************************************************)
HasEndpoint(n) ==
  \/ store[n].status.apiEndpoint # <<>>
  \/ store[n].status.adminKubeconfigSecret # <<>>

C22_EndpointOnlyForGold ==
  \A n \in Names : HasEndpoint(n) => store[n].spec.tier = GoldTier

\* A Tenant downgraded from Gold through the webhooks with
\* allowTierMigration set, reconciled to Ready at its current generation
\* with nothing left to do, that still carries both fields.
C22_Witness ==
  \E n \in Names :
    /\ webhooks
    /\ store[n].spec.allowTierMigration
    /\ store[n].spec.tier \in {SilverTier, BronzeTier}
    /\ store[n].status.state = StateReady
    /\ store[n].status.observedGeneration = store[n].generation
    /\ store[n].status.apiEndpoint # <<>>
    /\ store[n].status.adminKubeconfigSecret # <<>>
    /\ wq = EmptyQueue
    /\ \A w \in Workers : wk[w].pc = "idle"

PersistsReady(w) ==
  /\ wk[w].pc = "StatusFinal"
  /\ wk'[w].pc = "done"
  /\ Last(wk'[w].writes).ok

\* Worker w's call of ensureNamespace succeeds in this step.
EnsuresNamespace(w) ==
  /\ wk[w].pc = "ensureNamespace"
  /\ wk'[w].pc = "ensureResourceQuota"

(***************************************************************************)
(* C23, amended.  A Silver or Gold Tenant is brought to Ready only by an   *)
(* invocation that has ensured the namespace tenant-<name>: the call       *)
(* leaves that namespace in the cluster, and the Ready status persisted    *)
(* carries status.namespace = tenant-<name>; so does every Silver or Gold  *)
(* Tenant that is Ready at its current generation.  A Bronze Tenant is     *)
(* brought to Ready by an invocation that ensures no namespace.            *)
(***************************************************************************)
BoundaryRecorded ==
  \A n \in Names :
    ( /\ store[n].status.state = StateReady
      /\ store[n].status.observedGeneration = store[n].generation
      /\ store[n].spec.tier \in {SilverTier, GoldTier} ) =>
      store[n].status.namespace = <<"tenant", n>>

BoundaryEnsured ==
  \A w \in Workers :
    /\ EnsuresNamespace(w) =>
         /\ cluster'[wk[w].key]["Namespace"].owner # 0
         /\ wk'[w].obj.status.namespace = <<"tenant", wk[w].key>>
    /\ PersistsReady(w) =>
         IF wk[w].obj.spec.tier = BronzeTier
         THEN wk[w].calls = <<>>
         ELSE /\ wk[w].calls[1] = "ensureNamespace"
              /\ store'[wk[w].key].status.state = StateReady
              /\ store'[wk[w].key].status.namespace = <<"tenant", wk[w].key>>

WaitReturns == np.op = "waiting" /\ np'.op = "returned"

WaitResult ==
  WaitReturns =>
    /\ np'.prev \in {"ready", "timeout"}
    /\ np'.prev = "ready" =>
         /\ np.obj.owner # 0
         /\ np.obj.data[2] >= 1
         /\ np.obj.data[1] = np.obj.data[2]
         /\ np.now < 300
    /\ np'.prev = "timeout" => np.now >= 300
    /\ ~np'.err

C24_WaitTerminates == <>(np.op = "returned") /\ [][WaitResult]_vars

\* The wait has timed out on a StatefulSet that exists with no replica
\* ready, and ensureVCluster has returned nil.
C24_Witness ==
  /\ np.kind = "StatefulSet"
  /\ np.op = "returned"
  /\ np.prev = "timeout"
  /\ np.obj.owner # 0
  /\ np.obj.data = <<1, 0>>
  /\ ~np.err


(***************************************************************************)
(* C25.  Credential export does not fail on an unreadable source: a call   *)
(* of ensureKubeconfigSecret returns an error exactly when the API server  *)
(* refused its read of the exported Secret or the write it had to send.    *)
(* When it returns nil the Secret <name>-kubeconfig exists and holds the   *)
(* placeholder if the source could not be read and the source's credential *)
(* if it could, status.adminKubeconfigSecret names it, and a Secret that   *)
(* was there before the call is the same object afterwards.                *)
(***************************************************************************)
ExportCall == np.kind = "Secret" /\ np.op = "ensure"

PlaceholderCredential == <<KubeconfigSecretSuffix>>

CredentialDue ==
  IF np.source = <<>> THEN PlaceholderCredential ELSE np.source

ExportWriteDue == np.before.owner = 0 \/ np.before.data # CredentialDue

C25_ExportWithPlaceholder ==
  ExportCall =>
    /\ np.err <=> \/ np.api = "get fails"
                  \/ np.api = "write fails" /\ ExportWriteDue
    /\ ~np.err =>
         /\ np.obj.owner # 0
         /\ np.obj.data = CredentialDue
         /\ \E n \in Names : np.status = <<n, KubeconfigSecretSuffix>>
         /\ np.before.owner # 0 => np.obj.owner = np.before.owner
         /\ np.writes = IF np.before.owner = 0 THEN <<"Create">>
                        ELSE IF ExportWriteDue THEN <<"Update">> ELSE <<>>

\* The source has become readable and the call has overwritten the
\* placeholder of an earlier call with the source's credential.
C25_Witness ==
  /\ ExportCall
  /\ ~np.err
  /\ np.source # <<>>
  /\ np.before.owner # 0
  /\ np.before.data = PlaceholderCredential
  /\ np.obj.owner = np.before.owner
  /\ np.obj.data = np.source
  /\ np.writes = <<"Update">>
  /\ np.status # <<>>


(***************************************************************************)
(* C26.  ensureResourceQuota does not fail on the declared quantities: a   *)
(* call returns an error exactly when the API server refused its read of   *)
(* the quota or the write it had to send.  When it returns nil the quota   *)
(* exists with requests.cpu = limits.cpu and requests.memory =             *)
(* limits.memory, each the declared quantity, or 1000m for a cpu and 1Gi   *)
(* for a memory that is empty or does not parse, whatever the other one    *)
(* is, and with a pod cap of 100.                                          *)
(***************************************************************************)
QuotaCall == np.kind = "ResourceQuota" /\ np.op = "ensure"

Usable(quantity) == quantity # <<>> /\ ParseQuantityOk(quantity)

QuotaDue ==
  LET cpu == IF Usable(np.spec.cpu) THEN np.spec.cpu
             ELSE <<"1", "0", "0", "0", "m">>
      memory == IF Usable(np.spec.memory) THEN np.spec.memory
                ELSE <<"1", "G", "i">> IN
  <<cpu, memory, cpu, memory, "100">>

QuotaWriteDue == np.before.owner = 0 \/ np.before.data # QuotaDue

C26_QuotaFromDeclaration ==
  QuotaCall =>
    /\ np.err <=> \/ np.api = "get fails"
                  \/ np.api = "write fails" /\ QuotaWriteDue
    /\ ~np.err => /\ np.obj.owner # 0
                  /\ np.obj.data = QuotaDue

\* A quota written for a declaration whose cpu parses and whose memory
\* does not: the declared cpu and the default memory.
C26_Witness ==
  /\ QuotaCall
  /\ ~np.err
  /\ np.writes # <<>>
  /\ np.spec.cpu = <<"5", "0", "0", "m">>
  /\ np.spec.memory = <<"G", "i">>
  /\ np.obj.data = << <<"5", "0", "0", "m">>, <<"1", "G", "i">>,
                      <<"5", "0", "0", "m">>, <<"1", "G", "i">>, "100" >>


(***************************************************************************)
(* C29.  Whenever a provisioner has returned nil, the object it manages    *)
(* reflects the declaration as it is then: the namespace carries the tier  *)
(* and owner labels, the quota the caps, the network policy the rules, and *)
(* the Helm values of the virtual cluster the declared cpu and memory.     *)
(***************************************************************************)
ReflectsSpec ==
  CASE np.kind = "Namespace" ->
         np.obj.data[1] = np.spec.tier /\ np.obj.data[2] = np.spec.owner
    [] np.kind = "ResourceQuota" -> np.obj.data = QuotaDue
    [] np.kind = "NetworkPolicy" -> np.obj.data = DesiredPolicy(np.spec)
    [] np.kind = "ConfigMap" ->
         np.obj.data[2] = np.spec.cpu /\ np.obj.data[3] = np.spec.memory
    [] OTHER -> TRUE

C29_ObjectsFollowSpec ==
  np.op = "ensure" /\ ~np.err => np.obj.owner # 0 /\ ReflectsSpec

\* ensureVCluster has returned nil right after a change of the declared
\* resources and has sent nothing: the Helm values still quote the old
\* ones.
C29_Witness ==
  /\ np.kind = "ConfigMap"
  /\ np.op = "ensure"
  /\ np.prev = "change"
  /\ ~np.err
  /\ np.api = "ok"
  /\ np.writes = <<>>
  /\ np.obj.owner # 0
  /\ <<np.obj.data[2], np.obj.data[3]>> # <<np.spec.cpu, np.spec.memory>>


(***************************************************************************)
(* C27.  The active-tenant gauge of each tier equals the number of         *)
(* declarations of that tier in state Ready.  Both are zero when the       *)
(* operator starts, so the two are equal in every state exactly when every *)
(* step adds to the gauge of each tier what it adds to that number.        *)
(***************************************************************************)
ReadyTenants(tier) ==
  { n \in Names : /\ store[n].uid # 0
                  /\ store[n].spec.tier = tier
                  /\ store[n].status.state = StateReady }

GaugeAdded(tier) ==
  Cardinality({ w \in Workers :
                  /\ Len(wk'[w].recorded) = Len(wk[w].recorded) + 1
                  /\ wk'[w].recorded[Len(wk'[w].recorded)] = tier })

GaugeFollowsReady ==
  \A tier \in Tiers :
    GaugeAdded(tier) =
      Cardinality(ReadyTenants(tier)') - Cardinality(ReadyTenants(tier))

C27_GaugeCountsReady == [][GaugeFollowsReady]_vars

\* A declaration that was counted as Gold (only a successful Gold
\* invocation persists apiEndpoint, and it incremented the Gold gauge) has
\* been downgraded and is now counted as Silver by the invocation that
\* has just returned: the Gold gauge still counts it.
C27_Witness ==
  \E w \in Workers : \E n \in Names :
    /\ wk[w].pc = "done"
    /\ wk[w].key = n
    /\ wk[w].recorded = <<SilverTier>>
    /\ store[n].uid # 0
    /\ store[n].spec.tier = SilverTier
    /\ store[n].status.state = StateReady
    /\ store[n].status.apiEndpoint # <<>>


(***************************************************************************)
(* C28.  An invocation that reconciles a Bronze declaration calls no       *)
(* provisioner and leaves every object of the cluster as it is, and when   *)
(* it returns without error from a declaration that is not being deleted   *)
(* it has just persisted the state Ready.                                  *)
(***************************************************************************)
\* Worker w takes a step of an invocation whose declaration is Bronze.
BronzeStep(w) ==
  /\ wk[w].pc # "idle"
  /\ wk'[w].pc # wk[w].pc
  /\ IF wk[w].pc = "Get" THEN store[wk[w].key].spec.tier = BronzeTier
     ELSE wk[w].obj.spec.tier = BronzeTier

BronzeWritesNothing ==
  \A w \in Workers :
    BronzeStep(w) =>
      /\ cluster' = cluster
      /\ wk'[w].calls = <<>>
      /\ ( /\ wk'[w].pc = "done"
           /\ wk'[w].result = NoResult
           /\ wk'[w].obj.deletionTimestamp = 0 )
         => /\ wk[w].pc = "StatusFinal"
            /\ store'[wk[w].key].status.state = StateReady
            /\ store'[wk[w].key].status.observedGeneration
                 = store'[wk[w].key].generation

C28_BronzeWritesNothing == [][BronzeWritesNothing]_vars

\* A Bronze declaration reconciled to Ready in a cluster that holds no
\* object for it.
C28_Witness ==
  \E w \in Workers : \E n \in Names :
    /\ wk[w].pc = "done"
    /\ wk[w].key = n
    /\ wk[w].result = NoResult
    /\ wk[w].calls = <<>>
    /\ wk[w].obj.spec.tier = BronzeTier
    /\ store[n].uid # 0
    /\ store[n].spec.tier = BronzeTier
    /\ store[n].status.state = StateReady
    /\ cluster[n] = NoObjects


(***************************************************************************)
(* C30.  An invocation in which ensureVCluster or ensureKubeconfigSecret   *)
(* returned an error persists no status with the state Ready: none of the  *)
(* status writes it has got accepted carried Ready, and a step of it that  *)
(* changes the stored declaration leaves it in a state other than Ready.   *)
(***************************************************************************)
GoldStepErrors == {"vCluster deployment failed", "kubeconfig retrieval failed"}

GoldStepFailed(w) ==
  /\ wk[w].pc # "idle"
  /\ wk[w].err # <<>>
  /\ wk[w].err[1] \in GoldStepErrors

NoReadyWritten ==
  \A w \in Workers :
    GoldStepFailed(w) =>
      \A i \in 1..Len(wk[w].writes) :
        wk[w].writes[i].op = "Status" /\ wk[w].writes[i].ok
          => wk[w].writes[i].state # StateReady

NoReadyStored ==
  \A w \in Workers :
    ( /\ GoldStepFailed(w)
      /\ wk'[w].pc # wk[w].pc
      /\ store'[wk[w].key] # store[wk[w].key] )
    => store'[wk[w].key].status.state # StateReady

C30_FailedGoldNotReady == []NoReadyWritten /\ [][NoReadyStored]_vars

\* The credential export failed after the Silver part had set Ready in
\* memory, and the invocation has stored Failed with the error.
C30_Witness ==
  \E w \in Workers : \E n \in Names :
    /\ wk[w].pc = "done"
    /\ wk[w].key = n
    /\ wk[w].err # <<>>
    /\ wk[w].err[1] = "kubeconfig retrieval failed"
    /\ wk[w].calls[Len(wk[w].calls)] = "ensureKubeconfigSecret"
    /\ wk[w].writes[Len(wk[w].writes)] =
         [op |-> "Status", state |-> StateFailed, ok |-> TRUE]
    /\ store[n].spec.tier = GoldTier
    /\ store[n].status.state = StateFailed
    /\ store[n].status.lastError = wk[w].err


(***************************************************************************)
(* C31.  An invocation keeps the spec and generation it read, and the      *)
(* status write of its success path is refused when the stored             *)
(* declaration is no longer the one it read (another generation: a spec    *)
(* update or a delete request; another UID: deleted and created again).    *)
(* An accepted write of the success path therefore stores                  *)
(* observedGeneration = generation for the spec the invocation has worked  *)
(* with.                                                                   *)
(***************************************************************************)
\* Worker w takes a step of its invocation.
InvocationStep(w) ==
  /\ wk[w].pc \notin {"idle", "Get"}
  /\ wk'[w].pc # wk[w].pc
  /\ wk'[w].pc # "idle"

\* The declaration was changed by somebody else after worker w read it.
ChangedInFlight(w) ==
  \/ store[wk[w].key].uid # wk[w].obj.uid
  \/ store[wk[w].key].generation # wk[w].obj.generation

OptimisticConcurrency ==
  \A w \in Workers :
    InvocationStep(w) =>
      LET n == wk[w].key IN
      /\ wk'[w].obj.spec = wk[w].obj.spec
      /\ wk'[w].obj.generation = wk[w].obj.generation
      /\ wk[w].pc = "StatusFinal" /\ ChangedInFlight(w) =>
           /\ store' = store
           /\ wk'[w].result.err # <<>>
      /\ wk[w].pc = "StatusFinal" /\ store'[n] # store[n] =>
           /\ store'[n].spec = wk[w].obj.spec
           /\ store'[n].generation = wk[w].obj.generation
           /\ store'[n].status.observedGeneration = store'[n].generation

C31_OptimisticConcurrency == [][OptimisticConcurrency]_vars

\* With no API fault in the behaviour, the success path's status write
\* has been refused for a declaration the user updated while the
\* invocation was running.
C31_Witness ==
  \E w \in Workers :
    /\ faults = 0
    /\ wk[w].pc = "done"
    /\ wk[w].writes # <<>>
    /\ wk[w].writes[Len(wk[w].writes)] =
         [op |-> "Status", state |-> StateReady, ok |-> FALSE]
    /\ wk[w].result.requeue
    /\ store[wk[w].key].uid = wk[w].obj.uid
    /\ store[wk[w].key].generation > wk[w].obj.generation
    /\ store[wk[w].key].deletionTimestamp = 0


(***************************************************************************)
(* C32.  A declaration stored with the state Terminating keeps that state  *)
(* for as long as it exists, and no invocation for it calls a provisioner. *)
(***************************************************************************)
IsTerminating(n) ==
  store[n].uid # 0 /\ store[n].status.state = StateTerminating

TerminatingIsFinal ==
  \A n \in Names :
    IsTerminating(n) =>
      /\ store'[n].uid \in {0, store[n].uid}
      /\ store'[n].uid # 0 => store'[n].status.state = StateTerminating
      /\ \A w \in Workers :
           wk'[w].key = n => Len(wk'[w].calls) <= Len(wk[w].calls)

C32_TerminatingIsFinal == [][TerminatingIsFinal]_vars

\* A later invocation has read a declaration already stored as
\* Terminating (the removal of the finalizer failed before) and is in
\* handleDeletion again.
C32_Witness ==
  \E w \in Workers : \E n \in Names :
    /\ IsTerminating(n)
    /\ store[n].finalizer
    /\ wk[w].key = n
    /\ wk[w].pc = "StatusTerminating"
    /\ wk[w].obj.uid = store[n].uid
    /\ wk[w].calls = <<>>


(***************************************************************************)
(* C33.  Under fair scheduling of the operator and of the garbage          *)
(* collector, with API calls failing only finitely often, a declaration    *)
(* marked for deletion is eventually gone and has left no object behind:   *)
(* a state follows in which no declaration of its name is marked for       *)
(* deletion and every object under that name is owned by the declaration   *)
(* that exists then.  A deletion mark is never taken back, so in that      *)
(* state the marked declaration and the objects it owned are gone.         *)
(***************************************************************************)
MarkedForDeletion(n) ==
  store[n].uid # 0 /\ store[n].deletionTimestamp # 0

RemovedWithObjects(n) ==
  /\ ~MarkedForDeletion(n)
  /\ \A kind \in Kinds : cluster[n][kind].owner \in {0, store[n].uid}

C33_DeletionCompletes ==
  \A n \in Names : MarkedForDeletion(n) ~> RemovedWithObjects(n)

\* A Ready Gold declaration with its objects in place has been marked for
\* deletion.
C33_Witness ==
  \E n \in Names :
    /\ store[n].uid # 0
    /\ store[n].deletionTimestamp # 0
    /\ store[n].finalizer
    /\ store[n].status.state = StateReady
    /\ \A kind \in Kinds : cluster[n][kind].owner = store[n].uid


(***************************************************************************)
(* C34.  A step of a reconcile invocation leaves the spec, the generation  *)
(* and the deletion timestamp of every stored declaration as they are: it  *)
(* changes at most the finalizer and the status, and the declaration       *)
(* disappears only when the invocation removes the finalizer of one        *)
(* marked for deletion.                                                    *)
(***************************************************************************)
EngineStep(w) == wk[w].pc # "idle" /\ wk'[w].pc # wk[w].pc

EngineWritesFinalizerAndStatus ==
  \A w \in Workers :
    EngineStep(w) =>
      \A n \in Names :
        IF store'[n].uid = store[n].uid
        THEN /\ store'[n].spec = store[n].spec
             /\ store'[n].generation = store[n].generation
             /\ store'[n].deletionTimestamp = store[n].deletionTimestamp
        ELSE /\ store'[n] = NoTenant
             /\ store[n].deletionTimestamp # 0
             /\ wk[w].pc = "RemoveFinalizer"
             /\ wk[w].key = n

C34_EngineWritesFinalizerAndStatus == [][EngineWritesFinalizerAndStatus]_vars

\* An invocation has stored the finalizer and two statuses of a
\* declaration whose spec and generation are those the user created.
C34_Witness ==
  \E w \in Workers : \E n \in Names :
    /\ wk[w].pc = "done"
    /\ wk[w].key = n
    /\ Len(wk[w].writes) = 3
    /\ \A i \in 1..3 : wk[w].writes[i].ok
    /\ wk[w].writes[1].op = "Update"
    /\ store[n].finalizer
    /\ store[n].status.state = StateReady
    /\ store[n].generation = 1
    /\ store[n].spec = wk[w].obj.spec


(***************************************************************************)
(* C35.  No step of a reconcile invocation removes an object of the        *)
(* cluster, and an invocation for a Silver declaration leaves the Helm     *)
(* values and the credential Secret of an earlier Gold tier as they are,   *)
(* one for a Bronze declaration every object.                              *)
(***************************************************************************)
EngineDeletesNothing ==
  \A w \in Workers :
    EngineStep(w) =>
      \A n \in Names :
        /\ \A kind \in Kinds :
             cluster[n][kind].owner # 0
               => cluster'[n][kind].owner = cluster[n][kind].owner
        /\ wk[w].obj.spec.tier = SilverTier =>
             /\ cluster'[n]["ConfigMap"] = cluster[n]["ConfigMap"]
             /\ cluster'[n]["Secret"] = cluster[n]["Secret"]
        /\ wk[w].obj.spec.tier = BronzeTier => cluster'[n] = cluster[n]

C35_EngineDeletesNothing == [][EngineDeletesNothing]_vars

\* A Gold declaration downgraded to Silver through the webhooks has been
\* reconciled to Ready at the new generation, and every object made for
\* it as Gold is still there.
C35_Witness ==
  \E w \in Workers : \E n \in Names :
    /\ webhooks
    /\ wk[w].pc = "done"
    /\ wk[w].key = n
    /\ wk[w].result = NoResult
    /\ wk[w].calls = SilverOrder
    /\ store[n].spec.tier = SilverTier
    /\ store[n].generation = 2
    /\ store[n].status.state = StateReady
    /\ store[n].status.observedGeneration = 2
    /\ \A kind \in Kinds : cluster[n][kind].owner = store[n].uid


(***************************************************************************)
(* C37.  status.lastError is written on the failure path only: a step of   *)
(* an invocation that changes the stored lastError is the status write of  *)
(* the failure path and stores the text of the invocation's error; the     *)
(* status write of the success path stores the text that was there.        *)
(***************************************************************************)
LastErrorOnFailureOnly ==
  \A w \in Workers :
    EngineStep(w) =>
      \A n \in Names :
        store'[n].uid = store[n].uid =>
          /\ store'[n].status.lastError # store[n].status.lastError =>
               /\ wk[w].pc = "StatusFailed"
               /\ wk[w].key = n
               /\ wk[w].err # <<>>
               /\ store'[n].status.lastError = wk[w].err
          /\ wk[w].pc = "StatusFinal" =>
               store'[n].status.lastError = store[n].status.lastError

C37_LastErrorOnFailureOnly == [][LastErrorOnFailureOnly]_vars

\* A success has followed a failure: the declaration is Ready at its
\* generation, the invocation's last write was accepted, and the text of
\* the earlier error is still in lastError.
C37_Witness ==
  \E w \in Workers : \E n \in Names :
    /\ wk[w].pc = "done"
    /\ wk[w].key = n
    /\ wk[w].err = <<>>
    /\ wk[w].result = NoResult
    /\ wk[w].writes # <<>>
    /\ wk[w].writes[Len(wk[w].writes)] =
         [op |-> "Status", state |-> StateReady, ok |-> TRUE]
    /\ store[n].uid = wk[w].obj.uid
    /\ store[n].status.state = StateReady
    /\ store[n].status.observedGeneration = store[n].generation
    /\ store[n].status.lastError # <<>>


(***************************************************************************)
(* C38.  For every declaration the ingress and egress rule lists the       *)
(* drift detector reconstructs are those ensureNetworkPolicy computes,     *)
(* rule for rule and in the same order; a policy the detector has          *)
(* corrected carries exactly what ensureNetworkPolicy would store.         *)
(***************************************************************************)
C38_DetectorRulesAsEnsured ==
  /\ driftIngressRules(np.spec) = ingressRules(np.spec)
  /\ driftEgressRules(np.spec) = egressRules(np.spec)
  /\ (np.op = "detect" /\ np.writes = <<"Update">>) =>
       /\ np.obj.data = PolicyData(ingressRules(np.spec), egressRules(np.spec))
       /\ ensurePolicy(np.obj, PolicyOwner, np.spec, "ok").writes = <<>>

\* The detector has corrected the policy of a declaration that whitelists
\* two services, one written with a namespace and one without, and allows
\* internet access: four egress rules in the order of the code.
C38_Witness ==
  /\ np.op = "detect"
  /\ np.writes = <<"Update">>
  /\ np.spec.allowInternetAccess
  /\ np.spec.whitelistedServices.items = << <<"s", "/", "a">>, <<"a">> >>
  /\ np.obj.data[2] =
       << DNSRule, ServiceRule(<<"s">>), ServiceRule(DefaultNamespace), InternetRule >>


(***************************************************************************)
(* C40.  parseServiceRef returns as namespace the text before the first    *)
(* "/" of a whitelist entry and "default" for an entry without "/"; the    *)
(* egress rule ensureNetworkPolicy stores for the entry selects that       *)
(* namespace with an empty pod selector and no port, so that entries that  *)
(* differ in service name or port only give the same rule.                 *)
(***************************************************************************)
\* ns is the text of ref before its first "/".
BeforeFirstSlash(ref, ns) ==
  /\ Len(ns) < Len(ref)
  /\ ref[Len(ns) + 1] = "/"
  /\ \A j \in 1..Len(ns) : ns[j] = ref[j] /\ ns[j] # "/"

NamespaceOf(ref, ns) ==
  IF \E i \in 1..Len(ref) : ref[i] = "/"
  THEN BeforeFirstSlash(ref, ns)
  ELSE ns = DefaultNamespace

C40_ServiceRefNamespace ==
  /\ \A ref \in ServiceRefs : NamespaceOf(ref, parseServiceRef(ref)[1])
  /\ (np.op = "ensure" /\ np.writes # <<>>) =>
       LET items == np.spec.whitelistedServices.items
           egress == np.obj.data[2] IN
       /\ Len(egress) >= 1 + Len(items)
       /\ \A i \in 1..Len(items) :
            /\ egress[i + 1].kind = "namespaceSelector+podSelector"
            /\ egress[i + 1].port = ""
            /\ NamespaceOf(items[i], egress[i + 1].name)
            /\ \A j \in 1..Len(items) :
                 parseServiceRef(items[i])[1] = parseServiceRef(items[j])[1]
                   => egress[i + 1] = egress[j + 1]

\* ensureNetworkPolicy has stored the policy of a declaration whose two
\* entries name different services of namespace s, one with a port and
\* one with a second "/": both rules select namespace s.
C40_Witness ==
  /\ np.op = "ensure"
  /\ np.writes = <<"Create">>
  /\ ~np.spec.allowInternetAccess
  /\ np.spec.whitelistedServices.items =
       << <<"s", "/", "b", ":", "8">>, <<"s", "/", "a", "/", "b">> >>
  /\ np.obj.data[2] = << DNSRule, ServiceRule(<<"s">>), ServiceRule(<<"s">>) >>


(***************************************************************************)
(* C36.  The update filter returns a pass or drop decision for every       *)
(* update event the controller subscribes to, of a Tenant and of an owned  *)
(* Namespace or Secret alike, without a run-time failure.                  *)
(***************************************************************************)
FilterDecides ==
  \A n \in Names :
    /\ store'[n] # store[n] =>
         UpdateFuncOn("Tenant", store[n], store'[n]) \in {"pass", "drop"}
    /\ \A kind \in OwnedKinds :
         cluster'[n][kind] # cluster[n][kind] =>
           UpdateFuncOn(kind, cluster[n][kind], cluster'[n][kind]) \in {"pass", "drop"}

C36_FilterDecides == [][FilterDecides]_vars

\* The update event of an owned Namespace has been handed to the filter,
\* which panicked; nothing was queued for the owner.
C36_Witness ==
  \E n \in Names :
    /\ np.op = "update event"
    /\ np.kind = "Namespace"
    /\ np.before.owner = store[n].uid
    /\ np.obj.data # np.before.data
    /\ np.err
    /\ wq = EmptyQueue


(***************************************************************************)
(* C39.  At most MaxConcurrentReconciles (3) invocations are in flight at  *)
(* any time, each for a different tenant; and with the workers scheduled   *)
(* fairly every tenant with a pending event is eventually taken up by a    *)
(* worker, also while the other workers are held in the readiness wait.    *)
(***************************************************************************)
InFlight == {w \in Workers : wk[w].pc # "idle"}

AtMostThreeDistinct ==
  /\ Cardinality(InFlight) <= 3
  /\ \A v, w \in InFlight : v # w => wk[v].key # wk[w].key

\* An event of tenant k is waiting for a worker.
EventPending(k) == k \in wq.dirty

C39_PoolServesEveryTenant ==
  /\ []AtMostThreeDistinct
  /\ \A k \in PoolKeys : EventPending(k) ~> ~EventPending(k)

\* All three workers are held in the readiness wait, each past its first
\* turn, and the event of a fourth tenant is waiting in the queue.
C39_Witness ==
  /\ \A w \in Workers :
       wk[w].pc = "ensureVCluster" /\ wk[w].calls # <<>>
  /\ \E k \in PoolKeys : wq.queue = <<k>> /\ EventPending(k)

=============================================================================
